---- MODULE Spec2Model ----
(***************************************************************************)
(* A model of migrate.py, the Obsidian to Notion migration script:         *)
(* NotionFileUploader, ObsidianParser, NotionBlockBuilder, NotionMigrator  *)
(* and MigrationOrchestrator.                                              *)
(*                                                                         *)
(* Text.  A Python str is a sequence of items <<c, n>>: the character c    *)
(* repeated n times.  Every character has n = 1 except WideChar, a plain   *)
(* letter that occurs in no pattern of the program, whose runs are kept    *)
(* merged; this is what lets a text be longer than the 2000-character cap  *)
(* of a rich-text run.                                                     *)
(***************************************************************************)
EXTENDS Integers, Sequences, FiniteSets, TLC

WideChar == "q"

\* The grave accent, U+0060, which a TLA+ string cannot hold.
Backtick == "backtick"

Str(cs) == [i \in 1..Len(cs) |-> <<cs[i], 1>>]

Rep(n) == IF n = 0 THEN <<>> ELSE << <<WideChar, n>> >>

Min(S) == CHOOSE x \in S : \A y \in S : x <= y

Max(S) == CHOOSE x \in S : \A y \in S : x >= y

\* len(s), summed by halves
RECURSIVE SLen(_)
SLen(s) ==
    IF Len(s) = 0 THEN 0
    ELSE IF Len(s) = 1 THEN s[1][2]
    ELSE SLen(SubSeq(s, 1, Len(s) \div 2)) + SLen(SubSeq(s, Len(s) \div 2 + 1, Len(s)))

\* The number of leading items of s that lie wholly within its first k characters.
Whole(s, k) == Max({j \in 0..Len(s) : SLen(SubSeq(s, 1, j)) <= k})

Cat(a, b) ==
    IF a # <<>> /\ b # <<>> /\ a[Len(a)][1] = WideChar /\ b[1][1] = WideChar
    THEN SubSeq(a, 1, Len(a) - 1)
         \o << <<WideChar, a[Len(a)][2] + b[1][2]>> >> \o Tail(b)
    ELSE a \o b

Cat3(a, b, c) == Cat(Cat(a, b), c)

\* The first n items of s and the first r characters of the next.
TakeItems(s, n, r) ==
    IF n = Len(s) \/ r = 0 THEN SubSeq(s, 1, n)
    ELSE SubSeq(s, 1, n) \o << <<s[n + 1][1], r>> >>

\* s[:k]
Take(s, k) ==
    IF k <= 0 THEN <<>>
    ELSE TakeItems(s, Whole(s, k), k - SLen(SubSeq(s, 1, Whole(s, k))))

\* s without its first n items and the first r characters of the next.
DropItems(s, n, r) ==
    IF n = Len(s) \/ r = 0 THEN SubSeq(s, n + 1, Len(s))
    ELSE << <<s[n + 1][1], s[n + 1][2] - r>> >> \o SubSeq(s, n + 2, Len(s))

\* s[k:]
Drop(s, k) ==
    IF k <= 0 THEN s
    ELSE DropItems(s, Whole(s, k), k - SLen(SubSeq(s, 1, Whole(s, k))))

\* The character offset of item i of s (0-based, as re's match.start()).
Off(s, i) == SLen(SubSeq(s, 1, i - 1))

\* Items i .. j-1 of s.
Sub(s, i, j) == SubSeq(s, i, j - 1)

Whitespace == {" ", "\n", "\t", "\r"}

\* str.lstrip(cs)
LStrip(s, cs) ==
    SubSeq(s, Min({j \in 1..Len(s) + 1 : j = Len(s) + 1 \/ s[j][1] \notin cs}), Len(s))

\* str.rstrip(cs)
RStrip(s, cs) ==
    SubSeq(s, 1, Max({j \in 0..Len(s) : j = 0 \/ s[j][1] \notin cs}))

StripChars(s, cs) == RStrip(LStrip(s, cs), cs)

\* str.strip()
Strip(s) == StripChars(s, Whitespace)

\* str.startswith(p), p a text of single characters
StartsWith(s, p) ==
    /\ Len(s) >= Len(p)
    /\ \A i \in 1..Len(p) : s[i] = p[i]

\* s[i:].startswith(p), i an item index
StartsWithAt(s, i, p) ==
    /\ Len(s) - i + 1 >= Len(p)
    /\ \A j \in 1..Len(p) : s[i + j - 1] = p[j]

EndsWith(s, p) ==
    /\ Len(s) >= Len(p)
    /\ \A i \in 1..Len(p) : s[Len(s) - Len(p) + i] = p[i]

\* The least item index >= from at which p occurs in s; 0 when there is none.
Find(s, p, from) ==
    LET at == {j \in from..Len(s) - Len(p) + 1 :
                  \A i \in 1..Len(p) : s[j + i - 1] = p[i]}
    IN  IF at = {} THEN 0 ELSE Min(at)

\* p in s
Contains(s, p) == Find(s, p, 1) # 0

\* str.split(sep), sep one single character: its occurrences cannot overlap,
\* so the text is cut at the occurrence nearest after its middle (at the first
\* one when there is none there) and each side is split in turn.
RECURSIVE Split(_, _)
Split(s, sep) ==
    LET mid == Find(s, sep, Len(s) \div 2 + 1)
        k   == IF mid # 0 THEN mid ELSE Find(s, sep, 1)
    IN  IF k = 0 THEN <<s>>
        ELSE Split(Sub(s, 1, k), sep) \o Split(SubSeq(s, k + Len(sep), Len(s)), sep)

\* sep.join(parts)
RECURSIVE Join(_, _)
Join(parts, sep) ==
    IF parts = <<>> THEN <<>>
    ELSE IF Len(parts) = 1 THEN parts[1]
    ELSE Cat3(parts[1], sep, Join(Tail(parts), sep))

UpperLower ==
    [c \in {"A", "B", "C", "D", "E", "F", "G", "H", "I", "J", "K", "L", "M", "N",
            "O", "P", "Q", "R", "S", "T", "U", "V", "W", "X", "Y", "Z"} |->
        CASE c = "A" -> "a" [] c = "B" -> "b" [] c = "C" -> "c" [] c = "D" -> "d"
          [] c = "E" -> "e" [] c = "F" -> "f" [] c = "G" -> "g" [] c = "H" -> "h"
          [] c = "I" -> "i" [] c = "J" -> "j" [] c = "K" -> "k" [] c = "L" -> "l"
          [] c = "M" -> "m" [] c = "N" -> "n" [] c = "O" -> "o" [] c = "P" -> "p"
          [] c = "Q" -> "q" [] c = "R" -> "r" [] c = "S" -> "s" [] c = "T" -> "t"
          [] c = "U" -> "u" [] c = "V" -> "v" [] c = "W" -> "w" [] c = "X" -> "x"
          [] c = "Y" -> "y" [] c = "Z" -> "z"]

\* str.lower()
Lower(s) ==
    [i \in 1..Len(s) |->
        IF s[i][1] \in DOMAIN UpperLower THEN <<UpperLower[s[i][1]], s[i][2]>>
        ELSE s[i]]

(***************************************************************************)
(* Regular expressions.  Every pattern of the program is a sequence of     *)
(* literals and of greedy runs over a negated character class, each run    *)
(* followed by a literal that starts with a character the class excludes   *)
(* (or by the end of the pattern), so matching never backtracks.  A        *)
(* pattern is [els, nb, na]: its elements, the characters that may not     *)
(* precede the match (a negative lookbehind) and those that may not        *)
(* follow it (a negative lookahead).                                       *)
(***************************************************************************)
Lit(cs) == [k |-> "lit", cs |-> cs, ex |-> {}, min |-> 0]

Run(ex, min) == [k |-> "run", cs |-> <<>>, ex |-> ex, min |-> min]

\* A greedy run over the characters cs, at least min of them.
In(cs, min) == [k |-> "in", cs |-> <<>>, ex |-> cs, min |-> min]

Pat(els) == [els |-> els, nb |-> {}, na |-> {}]

\* The index after the longest stretch of items of s from i with no character of ex.
RunEnd(s, i, ex) == Min({j \in i..Len(s) + 1 : j = Len(s) + 1 \/ s[j][1] \in ex})

\* The index after the longest stretch of items of s from i with characters of cs only.
InEnd(s, i, cs) == Min({j \in i..Len(s) + 1 : j = Len(s) + 1 \/ s[j][1] \notin cs})

\* The item indices after each element of els matched at i (<<>> when the
\* elements do not match there); bs holds the boundaries so far, the start first.
RECURSIVE MatchEls(_, _, _, _)
MatchEls(s, i, els, bs) ==
    IF els = <<>> THEN bs
    ELSE LET e == els[1] IN
         IF e.k = "lit"
         THEN IF StartsWithAt(s, i, Str(e.cs))
              THEN MatchEls(s, i + Len(e.cs), Tail(els), Append(bs, i + Len(e.cs)))
              ELSE <<>>
         ELSE LET j == IF e.k = "run" THEN RunEnd(s, i, e.ex) ELSE InEnd(s, i, e.ex) IN
              IF SLen(Sub(s, i, j)) >= e.min
              THEN MatchEls(s, j, Tail(els), Append(bs, j))
              ELSE <<>>

\* The boundaries bs of a match of p, unless the lookahead of p forbids it.
NotFollowed(s, p, bs) ==
    IF bs = <<>> THEN <<>>
    ELSE IF bs[Len(bs)] <= Len(s) /\ s[bs[Len(bs)]][1] \in p.na THEN <<>>
    ELSE bs

\* re's match of pattern p at item i of s: boundaries <<start, after el 1, ...>>.
MatchAt(s, i, p) ==
    IF i > 1 /\ s[i - 1][1] \in p.nb THEN <<>>
    ELSE NotFollowed(s, p, MatchEls(s, i, p.els, <<i>>))

\* The first alternative of ps from the n-th on that matches at i: [alt, bs],
\* alt = 0 for none; bs is the match of the n-th.
RECURSIVE MatchAlt(_, _, _, _)
FirstAlt(s, i, ps, n, bs) ==
    IF bs # <<>> THEN [alt |-> n, bs |-> bs] ELSE MatchAlt(s, i, ps, n + 1)

MatchAlt(s, i, ps, n) ==
    IF n > Len(ps) THEN [alt |-> 0, bs |-> <<>>]
    ELSE FirstAlt(s, i, ps, n, MatchAt(s, i, ps[n]))

MStart(m) == m.bs[1]

MEnd(m) == m.bs[Len(m.bs)]

\* The non-overlapping matches from item i on, left to right; at[j] is the
\* match at item j.
RECURSIVE Matches(_, _)
Matches(at, i) ==
    LET starts == {j \in i..Len(at) : at[j].alt # 0} IN
    IF starts = {} THEN <<>>
    ELSE <<at[Min(starts)]>> \o Matches(at, MEnd(at[Min(starts)]))

\* re.finditer over the alternatives ps, from item i on.
FindIter(s, ps, i) == Matches([j \in 1..Len(s) |-> MatchAlt(s, j, ps, 1)], i)

\* Group text between the boundaries after elements a - 1 and b - 1.
Grp(s, m, a, b) == Sub(s, m.bs[a], m.bs[b])


(***************************************************************************)
(* Paths.  A path is the sequence of its components, each a text.          *)
(***************************************************************************)
\* Path.name
PathName(p) == IF p = <<>> THEN <<>> ELSE p[Len(p)]

\* The item index of the last "." of name; 0 when there is none.
LastDot(name, i) == Max({j \in 0..i : j = 0 \/ name[j][1] = "."})

\* PurePath.suffix: from the last dot, unless that dot leads or ends the name.
Suffix(name) ==
    LET i == LastDot(name, Len(name)) IN
    IF 1 < i /\ i < Len(name) THEN SubSeq(name, i, Len(name)) ELSE <<>>

\* PurePath.stem
Stem(name) ==
    LET i == LastDot(name, Len(name)) IN
    IF 1 < i /\ i < Len(name) THEN Sub(name, 1, i) ELSE name

\* Path.resolve(): "." is dropped and "x/.." is folded (the model has no symlinks).
RECURSIVE ResolveInto(_, _)
ResolveInto(acc, p) ==
    IF p = <<>> THEN acc
    ELSE IF p[1] = Str(<<".">>) THEN ResolveInto(acc, Tail(p))
    ELSE IF p[1] = Str(<<".", ".">>)
         THEN ResolveInto(IF acc = <<>> THEN acc ELSE SubSeq(acc, 1, Len(acc) - 1),
                          Tail(p))
    ELSE ResolveInto(Append(acc, p[1]), Tail(p))

Resolve(p) == ResolveInto(<<>>, p)

(***************************************************************************)
(* NotionFileUploader                                                      *)
(***************************************************************************)
IMAGE_EXTENSIONS ==
    {Str(<<".", "p", "n", "g">>), Str(<<".", "j", "p", "g">>),
     Str(<<".", "j", "p", "e", "g">>), Str(<<".", "g", "i", "f">>),
     Str(<<".", "w", "e", "b", "p">>), Str(<<".", "s", "v", "g">>),
     Str(<<".", "b", "m", "p">>), Str(<<".", "i", "c", "o">>),
     Str(<<".", "t", "i", "f", "f">>)}

VIDEO_EXTENSIONS ==
    {Str(<<".", "m", "p", "4">>), Str(<<".", "m", "o", "v">>),
     Str(<<".", "w", "e", "b", "m">>), Str(<<".", "a", "v", "i">>),
     Str(<<".", "m", "k", "v">>)}

AUDIO_EXTENSIONS ==
    {Str(<<".", "m", "p", "3">>), Str(<<".", "w", "a", "v">>),
     Str(<<".", "o", "g", "g">>), Str(<<".", "m", "4", "a">>),
     Str(<<".", "f", "l", "a", "c">>)}

PDF_EXTENSIONS == {Str(<<".", "p", "d", "f">>)}

_get_block_type(file_path) ==
    LET suffix == Lower(Suffix(PathName(file_path))) IN
    IF suffix \in IMAGE_EXTENSIONS THEN "image"
    ELSE IF suffix \in VIDEO_EXTENSIONS THEN "video"
    ELSE IF suffix \in AUDIO_EXTENSIONS THEN "audio"
    ELSE IF suffix \in PDF_EXTENSIONS THEN "pdf"
    ELSE "file"

\* Python's None for a file_info, and for a file_upload_id.
NoneInfo == [none |-> TRUE, file_upload_id |-> <<>>, type |-> "", name |-> <<>>,
             needs_manual_upload |-> FALSE]

FileInfo(id, file_path, manual) ==
    [none |-> FALSE, file_upload_id |-> id, type |-> _get_block_type(file_path),
     name |-> PathName(file_path), needs_manual_upload |-> manual]

\* What the two requests of one upload can do: the create request answers a
\* status other than 200, answers no id, or raises; the file cannot be opened;
\* the send request answers a status other than 200 or raises; or all succeed.
UploadOutcomes ==
    {"ok", "create_status", "create_no_id", "create_raises", "open_raises",
     "send_status", "send_raises"}

CreateOnlyOutcomes == {"create_status", "create_no_id", "create_raises", "open_raises"}

\* The requests upload_file sends under an outcome, in order.
RequestsOf(key, outcome) ==
    IF outcome \in CreateOnlyOutcomes
    THEN << [op |-> "create", file |-> key] >>
    ELSE << [op |-> "create", file |-> key], [op |-> "send", file |-> key] >>

_handle_fallback(u, file_path, reason) ==
    [ret |-> FileInfo(<<>>, file_path, TRUE),
     u   |-> [u EXCEPT !.failed_uploads =
                 Append(@, [file |-> file_path, name |-> PathName(file_path),
                            reason |-> reason])]]

\* upload_file on the uploader state u = [upload_cache, failed_uploads,
\* successful_uploads, requests]; exists is file_path.exists() at the time of the
\* call, outcome what the remote requests do.  Yields [ret, u].
upload_file(u, cfg, file_path, parent_page_id, exists, outcome) ==
    LET cache_key == Resolve(file_path) IN
    IF cfg.skip_files THEN [ret |-> NoneInfo, u |-> u]
    ELSE IF ~exists THEN [ret |-> NoneInfo, u |-> u]
    ELSE IF cache_key \in DOMAIN u.upload_cache
         THEN [ret |-> u.upload_cache[cache_key], u |-> u]
    ELSE IF cfg.dry_run
         THEN LET result == FileInfo(<<"dry-run", PathName(file_path)>>, file_path, FALSE) IN
              [ret |-> result,
               u   |-> [u EXCEPT !.upload_cache = (cache_key :> result) @@ @]]
    ELSE LET sent == [u EXCEPT !.requests = @ \o RequestsOf(cache_key, outcome)] IN
         IF outcome = "ok"
         THEN LET id     == <<"id", Len(u.successful_uploads) + 1>>
                  result == FileInfo(id, file_path, FALSE) IN
              [ret |-> result,
               u   |-> [sent EXCEPT
                          !.upload_cache = (cache_key :> result) @@ @,
                          !.successful_uploads =
                              Append(@, [file |-> file_path,
                                         name |-> PathName(file_path),
                                         file_upload_id |-> id,
                                         parent_page_id |-> parent_page_id])]]
         ELSE _handle_fallback(sent, file_path, outcome)


(***************************************************************************)
(* The vault on disk.  A vault is the sequence of the paths of its files,  *)
(* relative to the vault root, in the order the operating system lists     *)
(* them (iterdir and os.walk follow it); directories are the proper        *)
(* prefixes of the file paths.                                             *)
(***************************************************************************)
Slash == Str(<<"/">>)

\* The name of the attachment folder beside a note.
FilesName == Str(<<"f", "i", "l", "e", "s">>)

\* The components of Path(r): empty and "." components are dropped.
PathOf(r) == SelectSeq(Split(r, Slash), LAMBDA c : c # <<>> /\ c # Str(<<".">>))

\* base / r
JoinPath(base, r) == base \o PathOf(r)

IsPrefix(d, f) == Len(f) >= Len(d) /\ SubSeq(f, 1, Len(d)) = d

IsFile(vault, p) == \E i \in DOMAIN vault : vault[i] = Resolve(p)

IsDir(vault, p) ==
    \E i \in DOMAIN vault : Len(vault[i]) > Len(Resolve(p)) /\ IsPrefix(Resolve(p), vault[i])

\* Path.exists()
Exists(vault, p) == IsFile(vault, p) \/ IsDir(vault, p)

\* The entries seen so far are kept once each, in the order first seen.
RECURSIVE Dedupe(_, _)
Dedupe(seen, rest) ==
    IF rest = <<>> THEN seen
    ELSE IF \E i \in DOMAIN seen : seen[i] = rest[1] THEN Dedupe(seen, Tail(rest))
    ELSE Dedupe(Append(seen, rest[1]), Tail(rest))

Below(vault, d) == SelectSeq(vault, LAMBDA f : Len(f) > Len(d) /\ IsPrefix(d, f))

\* Path.iterdir(): the files and directories directly inside d.
IterDir(vault, d) ==
    LET under == Below(vault, d) IN
    Dedupe(<<>>, [i \in DOMAIN under |-> SubSeq(under[i], 1, Len(d) + 1)])

FilesIn(vault, d) == SelectSeq(IterDir(vault, d), LAMBDA e : IsFile(vault, e))

DirsIn(vault, d) == SelectSeq(IterDir(vault, d), LAMBDA e : ~IsFile(vault, e))

NonePath == [none |-> TRUE, path |-> <<>>]

SomePath(p) == [none |-> FALSE, path |-> p]

\* The first element of seq that satisfies Test, as an optional path.
FirstPath(seq, Test(_)) ==
    LET hits == SelectSeq(seq, Test) IN
    IF hits = <<>> THEN NonePath ELSE SomePath(hits[1])

\* urllib.parse.unquote on the escapes of the model's alphabet.
PercentCodes ==
    (<<"2", "0">> :> " ") @@ (<<"2", "5">> :> "%") @@ (<<"5", "B">> :> "[")
    @@ (<<"5", "b">> :> "[") @@ (<<"5", "D">> :> "]") @@ (<<"5", "d">> :> "]")

RECURSIVE unquote(_)
unquote(s) ==
    LET at == {j \in 1..Len(s) - 2 :
                  /\ s[j][1] = "%"
                  /\ <<s[j + 1][1], s[j + 2][1]>> \in DOMAIN PercentCodes
                  /\ s[j + 1][2] = 1 /\ s[j + 2][2] = 1}
    IN  IF at = {} THEN s
        ELSE Cat3(Sub(s, 1, Min(at)),
                  Str(<<PercentCodes[<<s[Min(at) + 1][1], s[Min(at) + 2][1]>>]>>),
                  unquote(SubSeq(s, Min(at) + 3, Len(s))))

(***************************************************************************)
(* ObsidianParser                                                          *)
(***************************************************************************)
EMBED_PATTERN ==
    Pat(<<Lit(<<"!", "[", "[">>), Run({"]"}, 1), Lit(<<"]", "]">>)>>)

MD_IMAGE_PATTERN ==
    Pat(<<Lit(<<"!", "[">>), Run({"]"}, 0), Lit(<<"]", "(">>), Run({")"}, 1),
          Lit(<<")">>)>>)

MD_FILE_LINK_PATTERN ==
    [els |-> <<Lit(<<"[">>), Run({"]"}, 1), Lit(<<"]", "(">>), Run({")"}, 1),
               Lit(<<")">>)>>,
     nb |-> {"!"}, na |-> {}]

FILE_EXTENSIONS ==
    {Str(<<".", "p", "d", "f">>), Str(<<".", "d", "o", "c">>),
     Str(<<".", "d", "o", "c", "x">>), Str(<<".", "x", "l", "s">>),
     Str(<<".", "x", "l", "s", "x">>), Str(<<".", "p", "p", "t">>),
     Str(<<".", "p", "p", "t", "x">>),
     Str(<<".", "p", "n", "g">>), Str(<<".", "j", "p", "g">>),
     Str(<<".", "j", "p", "e", "g">>), Str(<<".", "g", "i", "f">>),
     Str(<<".", "w", "e", "b", "p">>), Str(<<".", "s", "v", "g">>),
     Str(<<".", "b", "m", "p">>),
     Str(<<".", "m", "p", "4">>), Str(<<".", "m", "o", "v">>),
     Str(<<".", "w", "e", "b", "m">>), Str(<<".", "a", "v", "i">>),
     Str(<<".", "m", "k", "v">>),
     Str(<<".", "m", "p", "3">>), Str(<<".", "w", "a", "v">>),
     Str(<<".", "o", "g", "g">>), Str(<<".", "m", "4", "a">>),
     Str(<<".", "f", "l", "a", "c">>),
     Str(<<".", "z", "i", "p">>), Str(<<".", "t", "a", "r">>),
     Str(<<".", "g", "z">>), Str(<<".", "r", "a", "r">>), Str(<<".", "7", "z">>),
     Str(<<".", "t", "x", "t">>), Str(<<".", "c", "s", "v">>),
     Str(<<".", "j", "s", "o", "n">>), Str(<<".", "x", "m", "l">>),
     Str(<<".", "y", "a", "m", "l">>), Str(<<".", "y", "m", "l">>),
     Str(<<".", "h", "t", "m", "l">>), Str(<<".", "h", "t", "m">>),
     Str(<<".", "i", "p", "y", "n", "b">>)}

\* os.walk from directory d, hidden directories pruned: the first file met whose
\* name is basename or its decoded form.
RECURSIVE WalkDirs(_, _, _)
WalkDir(vault, d, basename) ==
    LET here == FirstPath(FilesIn(vault, d),
                          LAMBDA f : PathName(f) = basename
                                     \/ PathName(f) = unquote(basename))
    IN  IF ~here.none THEN here
        ELSE WalkDirs(vault,
                      SelectSeq(DirsIn(vault, d),
                                LAMBDA e : ~StartsWith(PathName(e), Str(<<".">>))),
                      basename)

WalkDirs(vault, dirs, basename) ==
    IF dirs = <<>> THEN NonePath
    ELSE LET r == WalkDir(vault, dirs[1], basename) IN
         IF ~r.none THEN r ELSE WalkDirs(vault, Tail(dirs), basename)

_search_vault_for_file(vault, basename) == WalkDir(vault, <<>>, basename)

\* The candidates of one round of the loop of _resolve_file_path, in the order
\* they are tried: files_dir / r and files_dir / Path(r).name when files_dir
\* exists, then note_dir / r and vault_path / r.
Candidates(r, note_dir, files_dir, has_files_dir) ==
    (IF has_files_dir
     THEN <<JoinPath(files_dir, r), JoinPath(files_dir, PathName(PathOf(r)))>>
     ELSE <<>>)
    \o <<JoinPath(note_dir, r), JoinPath(<<>>, r)>>

\* for f in files_dir.iterdir(): a file of the same name or the same stem.
SameNameOrStem(vault, files_dir, ref_name) ==
    FirstPath(IterDir(vault, files_dir),
              LAMBDA f : PathName(f) = ref_name \/ Stem(PathName(f)) = Stem(ref_name))

\* The end of one round: hit is the first candidate that exists.
RoundEnd(vault, r, files_dir, has_files_dir, hit) ==
    IF ~hit.none THEN hit
    ELSE IF has_files_dir THEN SameNameOrStem(vault, files_dir, PathName(PathOf(r)))
    ELSE NonePath

\* One round of the loop of _resolve_file_path, for the form r of the reference.
RoundOf(vault, r, note_dir, files_dir, has_files_dir) ==
    RoundEnd(vault, r, files_dir, has_files_dir,
             FirstPath(Candidates(r, note_dir, files_dir, has_files_dir),
                       LAMBDA c : Exists(vault, c)))

ResolveRound(vault, r, note_dir, files_dir) ==
    RoundOf(vault, r, note_dir, files_dir, Exists(vault, files_dir))

\* The raw form tried before the decoded one.
ResolveRoundsRawFirst(vault, ref, ref_decoded, note_dir, files_dir, first) ==
    IF ref_decoded # ref /\ ~ResolveRound(vault, ref, note_dir, files_dir).none
    THEN ResolveRound(vault, ref, note_dir, files_dir)
    ELSE first

\* The loop "for r in [ref_decoded, ref] if ref_decoded != ref else [ref]":
\* first is what the round of ref_decoded found.
ResolveRounds(vault, ref, ref_decoded, note_dir, files_dir, first) ==
    IF ref_decoded # ref /\ first.none
    THEN ResolveRound(vault, ref, note_dir, files_dir)
    ELSE first

\* The end of _resolve_file_path: found is what the vault-wide search returned.
Unresolved(unresolved, ref, note_path, found) ==
    IF ~found.none THEN [ret |-> found, unresolved |-> unresolved]
    ELSE [ret |-> NonePath,
          unresolved |-> Append(unresolved, [note |-> note_path, reference |-> ref])]

\* After the loop of _resolve_file_path: found is what the rounds returned.
ResolveFallback(vault, unresolved, ref, note_path, found) ==
    IF ~found.none THEN [ret |-> found, unresolved |-> unresolved]
    ELSE Unresolved(unresolved, ref, note_path,
                    _search_vault_for_file(vault, PathName(PathOf(unquote(ref)))))

\* _resolve_file_path for the stripped reference ref and its decoded form.
ResolveForms(vault, unresolved, ref, ref_decoded, note_dir, files_dir, note_path) ==
    ResolveFallback(vault, unresolved, ref, note_path,
                    ResolveRounds(vault, ref, ref_decoded, note_dir, files_dir,
                                  ResolveRound(vault, ref_decoded, note_dir, files_dir)))

\* _resolve_file_path: [ret, unresolved], unresolved the collection afterwards.
_resolve_file_path(vault, unresolved, ref, note_dir, files_dir, note_path) ==
    ResolveForms(vault, unresolved, Strip(ref), unquote(Strip(ref)), note_dir,
                 files_dir, note_path)

\* A path that _find_file_references leaves alone: a web or data URL for an
\* image; for a link also an anchor, a mail address, a path with no known file
\* extension, or a span that an embed or an image has taken.
SkipsPath(kind, acc, span, path) ==
    LET web   == \/ StartsWith(path, Str(<<"h", "t", "t", "p", ":", "/", "/">>))
                 \/ StartsWith(path, Str(<<"h", "t", "t", "p", "s", ":", "/", "/">>))
                 \/ StartsWith(path, Str(<<"d", "a", "t", "a", ":">>))
        other == \/ StartsWith(path, Str(<<"#">>))
                 \/ StartsWith(path, Str(<<"m", "a", "i", "l", "t", "o", ":">>))
    IN  CASE kind = "embed" -> FALSE
          [] kind = "image" -> web
          [] OTHER -> \/ span \in acc.matched_positions
                      \/ web \/ other
                      \/ ~\E ext \in FILE_EXTENSIONS : EndsWith(Lower(path), ext)

\* The match m, whose path resolved as res says, recorded in acc.
RefAdd(content, kind, acc, m, span, res) ==
    IF res.ret.none THEN [acc EXCEPT !.unresolved = res.unresolved]
    ELSE [refs |-> Append(acc.refs,
                      [original_ref |-> Sub(content, MStart(m), MEnd(m)),
                       file_path |-> res.ret.path,
                       start |-> span[1], end |-> span[2]]),
          matched_positions |->
              IF kind = "link" THEN acc.matched_positions
              ELSE acc.matched_positions \cup {span},
          unresolved |-> res.unresolved]

\* One match m of a loop of _find_file_references; path is its group.
RefStep(vault, content, note_dir, note_path, kind, acc, m, span, path) ==
    IF SkipsPath(kind, acc, span, path) THEN acc
    ELSE RefAdd(content, kind, acc, m, span,
                _resolve_file_path(vault, acc.unresolved, path, note_dir,
                                   note_dir \o <<FilesName>>, note_path))

\* One loop of _find_file_references over the matches ms of one pattern (kind
\* "embed", "image" or "link"); acc = [refs, matched_positions, unresolved].
RECURSIVE RefsLoop(_, _, _, _, _, _, _)
RefsLoop(vault, content, note_dir, note_path, ms, kind, acc) ==
    IF ms = <<>> THEN acc
    ELSE RefsLoop(vault, content, note_dir, note_path, Tail(ms), kind,
                  RefStep(vault, content, note_dir, note_path, kind, acc, ms[1],
                          <<Off(content, MStart(ms[1])), Off(content, MEnd(ms[1]))>>,
                          IF kind = "embed" THEN Grp(content, ms[1], 2, 3)
                          ELSE Grp(content, ms[1], 4, 5)))

\* _find_file_references: [refs, matched_positions, unresolved].
_find_file_references(vault, unresolved, content, note_dir, note_path) ==
    RefsLoop(vault, content, note_dir, note_path,
             FindIter(content, <<MD_FILE_LINK_PATTERN>>, 1), "link",
             RefsLoop(vault, content, note_dir, note_path,
                      FindIter(content, <<MD_IMAGE_PATTERN>>, 1), "image",
                      RefsLoop(vault, content, note_dir, note_path,
                               FindIter(content, <<EMBED_PATTERN>>, 1), "embed",
                               [refs |-> <<>>, matched_positions |-> {},
                                unresolved |-> unresolved])))

(***************************************************************************)
(* ObsidianParser.parse_file                                               *)
(***************************************************************************)
Digits == {"0", "1", "2", "3", "4", "5", "6", "7", "8", "9"}

DigitValue ==
    ("0" :> 0) @@ ("1" :> 1) @@ ("2" :> 2) @@ ("3" :> 3) @@ ("4" :> 4) @@ ("5" :> 5)
    @@ ("6" :> 6) @@ ("7" :> 7) @@ ("8" :> 8) @@ ("9" :> 9)

\* int() of the digits of s at items i .. j
RECURSIVE Number(_, _, _)
Number(s, i, j) ==
    IF j < i THEN 0 ELSE 10 * Number(s, i, j - 1) + DigitValue[s[j][1]]

\* ^\d{4}-\d{2}-\d{2}
HasDatePrefix(s) ==
    /\ Len(s) >= 10
    /\ \A j \in {1, 2, 3, 4, 6, 7, 9, 10} : s[j][1] \in Digits
    /\ s[5][1] = "-" /\ s[8][1] = "-"

DaysIn(year, month) ==
    IF month \in {4, 6, 9, 11} THEN 30
    ELSE IF month # 2 THEN 31
    ELSE IF year % 4 = 0 /\ (year % 100 # 0 \/ year % 400 = 0) THEN 29
    ELSE 28

NoDate == [none |-> TRUE, year |-> 0, month |-> 0, day |-> 0]

\* _extract_date_from_filename: strptime rejects what is no date of the calendar.
_extract_date_from_filename(filename) ==
    IF ~HasDatePrefix(filename) THEN NoDate
    ELSE LET year  == Number(filename, 1, 4)
             month == Number(filename, 6, 7)
             day   == Number(filename, 9, 10)
         IN  IF year >= 1 /\ month \in 1..12 /\ day >= 1 /\ day <= DaysIn(year, month)
             THEN [none |-> FALSE, year |-> year, month |-> month, day |-> day]
             ELSE NoDate

DigitChar == [d \in 0..9 |-> CHOOSE c \in Digits : DigitValue[c] = d]

\* The decimal digits of n, zero-padded to width w.
Padded(n, w) ==
    [j \in 1..w |-> <<DigitChar[(n \div (10 ^ (w - j))) % 10], 1>>]

\* date.strftime("%Y-%m-%d"); the C library prints the year without padding.
RECURSIVE Decimal(_)
Decimal(n) == IF n < 10 THEN Padded(n, 1) ELSE Decimal(n \div 10) \o Padded(n % 10, 1)

FormatDate(date) ==
    Decimal(date.year) \o Str(<<"-">>) \o Padded(date.month, 2) \o Str(<<"-">>)
    \o Padded(date.day, 2)

\* A title that keeps the whitespace at its end.
TitleOfUntrimmed(stem, date) ==
    LET rest == LStrip(SubSeq(stem, 11, Len(stem)), Whitespace) IN
    IF date.none THEN stem
    ELSE IF rest # <<>> THEN rest
    ELSE FormatDate(date)

\* The title of parse_file from the file stem and its date.
TitleOf(stem, date) ==
    LET rest == Strip(LStrip(SubSeq(stem, 11, Len(stem)), Whitespace)) IN
    IF date.none THEN stem
    ELSE IF rest # <<>> THEN rest
    ELSE FormatDate(date)

\* FRONTMATTER_PATTERN.match(content), ^---\s*\n(.*?)\n---\s*\n with DOTALL:
\* [none, group, end].  The first \s* is greedy (the last newline of the
\* whitespace after the opening --- is tried first), the group is lazy (the
\* first closing \n--- that a newline follows), the last \s* greedy.
FrontmatterMatch(content) ==
    LET n      == Len(content)
        wsEnd(i) == InEnd(content, i, Whitespace)
        nls(i) == {j \in i..(wsEnd(i) - 1) : content[j][1] = "\n"}
        closes(k) == /\ StartsWithAt(content, k, Str(<<"\n", "-", "-", "-">>))
                     /\ nls(k + 4) # {}
        opens  == {j \in nls(4) : \E k \in (j + 1)..n : closes(k)}
        j0     == Max(opens)
        k0     == Min({k \in (j0 + 1)..n : closes(k)})
    IN  IF ~StartsWith(content, Str(<<"-", "-", "-">>)) \/ opens = {}
        THEN [none |-> TRUE, group |-> <<>>, end |-> 1]
        ELSE [none |-> FALSE, group |-> Sub(content, j0 + 1, k0),
              end |-> Max(nls(k0 + 4)) + 1]

\* result[key] = value of a dict kept as a sequence of [key, value].
DictPut(d, key, value) ==
    IF \E j \in DOMAIN d : d[j].key = key
    THEN [j \in DOMAIN d |-> IF d[j].key = key THEN [key |-> key, value |-> value] ELSE d[j]]
    ELSE Append(d, [key |-> key, value |-> value])

RECURSIVE FrontmatterLines(_, _)
FrontmatterLines(lines, result) ==
    IF lines = <<>> THEN result
    ELSE LET line == lines[1]
             at   == Find(line, Str(<<":">>), 1)
         IN  FrontmatterLines(Tail(lines),
                 IF at = 0 THEN result
                 ELSE DictPut(result, Strip(Sub(line, 1, at)),
                              Strip(SubSeq(line, at + 1, Len(line)))))

_parse_frontmatter(frontmatter_text) ==
    FrontmatterLines(Split(Strip(frontmatter_text), Str(<<"\n">>)), <<>>)

WIKILINK_PATTERN ==
    << Pat(<<Lit(<<"[", "[">>), Run({"]", "|"}, 1), Lit(<<"|">>), Run({"]"}, 1),
             Lit(<<"]", "]">>)>>),
       Pat(<<Lit(<<"[", "[">>), Run({"]", "|"}, 1), Lit(<<"]", "]">>)>>) >>

_find_internal_links(content) ==
    LET ms   == FindIter(content, WIKILINK_PATTERN, 1)
        kept == SelectSeq(ms, LAMBDA m : ~(MStart(m) > 1 /\ content[MStart(m) - 1][1] = "!"))
    IN  [j \in DOMAIN kept |-> Grp(content, kept[j], 2, 3)]

\* The ParsedNote of parse_file: found is what _find_file_references returned.
ParsedNote(stem, date, fm, body, found) ==
    [note |-> [title |-> TitleOf(stem, date),
               date |-> date,
               content |-> body,
               frontmatter |-> IF fm.none THEN <<>> ELSE _parse_frontmatter(fm.group),
               file_references |-> found.refs,
               internal_links |-> _find_internal_links(body)],
     unresolved |-> found.unresolved]

\* parse_file after the frontmatter was taken off: body is the content left.
ParseBody(vault, unresolved, file_path, stem, fm, body) ==
    ParsedNote(stem, _extract_date_from_filename(stem), fm, body,
               _find_file_references(vault, unresolved, body,
                                     SubSeq(file_path, 1, Len(file_path) - 1),
                                     file_path))

\* parse_file after FRONTMATTER_PATTERN was matched: fm is the match.
ParseContent(vault, unresolved, file_path, content, fm) ==
    ParseBody(vault, unresolved, file_path, Stem(PathName(file_path)), fm,
              IF fm.none THEN content ELSE SubSeq(content, fm.end, Len(content)))

\* parse_file of the note at file_path whose text is content: [note, unresolved].
parse_file(vault, unresolved, file_path, content) ==
    ParseContent(vault, unresolved, file_path, content, FrontmatterMatch(content))

(***************************************************************************)
(* NotionBlockBuilder: rich text                                           *)
(***************************************************************************)
RunCap == 2000

HttpPrefix == Str(<<"h", "t", "t", "p", ":", "/", "/">>)

HttpsPrefix == Str(<<"h", "t", "t", "p", "s", ":", "/", "/">>)

\* urlparse(url).netloc of a url that starts with http:// or https://
Netloc(url) ==
    LET rest == IF StartsWith(url, HttpsPrefix) THEN SubSeq(url, 9, Len(url))
                ELSE SubSeq(url, 8, Len(url))
    IN  Sub(rest, 1, RunEnd(rest, 1, {"/", "?", "#"}))

\* _is_valid_url of a url that starts with http:// or https:// (urlparse raises
\* on a bracket in the host that is no IPv6 literal)
ValidNetloc(netloc) ==
    /\ netloc # <<>>
    /\ \A j \in DOMAIN netloc : netloc[j][1] \notin {"[", "]"}
    /\ \E j \in DOMAIN netloc : netloc[j][1] = "."

_is_valid_url(url) == ValidNetloc(Netloc(url))

\* The checks of _sanitize_url on the stripped url.
Sanitized(url) ==
    IF ~(StartsWith(url, HttpPrefix) \/ StartsWith(url, HttpsPrefix)) THEN <<>>
    ELSE IF ~_is_valid_url(url) THEN <<>>
    ELSE url

\* _sanitize_url: the cleaned url, or <<>> for None.
_sanitize_url(url) ==
    IF url = <<>> THEN <<>>
    ELSE Sanitized(StripChars(StripChars(Strip(url), {"<", ">"}), {"\"", "'"}))

\* A run of rich text; link = <<>> when the run has none.
TextRun(content, annotations, link) ==
    [content |-> content, annotations |-> annotations, link |-> link]

\* A loop that would put the whole content in one run.
Unchunked(content, annotations) ==
    IF content = <<>> THEN <<>> ELSE <<TextRun(content, annotations, <<>>)>>

\* The loop "while content" of _parse_formatted_text.
RECURSIVE Chunks(_, _)
Chunks(content, annotations) ==
    IF content = <<>> THEN <<>>
    ELSE <<TextRun(Take(content, RunCap), annotations, <<>>)>>
         \o Chunks(Drop(content, RunCap), annotations)

FORMAT_PATTERNS ==
    << Pat(<<Lit(<<"*", "*">>), Run({"*"}, 1), Lit(<<"*", "*">>)>>),
       Pat(<<Lit(<<"_", "_">>), Run({"_"}, 1), Lit(<<"_", "_">>)>>),
       [els |-> <<Lit(<<"*">>), Run({"*"}, 1), Lit(<<"*">>)>>, nb |-> {"*"}, na |-> {"*"}],
       Pat(<<Lit(<<"_">>), Run({"_"}, 1), Lit(<<"_">>)>>),
       Pat(<<Lit(<<Backtick>>), Run({Backtick}, 1), Lit(<<Backtick>>)>>) >>

\* re.split(pattern, text) for a pattern that is one capturing group: the text
\* between the matches and the matches themselves, alternating.
RECURSIVE SplitParts(_, _, _)
SplitParts(text, ms, last) ==
    IF ms = <<>> THEN <<SubSeq(text, last, Len(text))>>
    ELSE <<Sub(text, last, MStart(ms[1])), Sub(text, MStart(ms[1]), MEnd(ms[1]))>>
         \o SplitParts(text, Tail(ms), MEnd(ms[1]))

\* part[a:-b]
Inner(part, a, b) == Take(Drop(part, a), SLen(part) - a - b)

\* The markers of a part of _parse_formatted_text: how many characters they
\* take at each end, and the annotation they stand for.
Marks(part) ==
    LET st(c) == StartsWith(part, Str(c)) /\ EndsWith(part, Str(c)) IN
    IF st(<<"*", "*">>) THEN [n |-> 2, annotations |-> "bold"]
    ELSE IF st(<<"_", "_">>) THEN [n |-> 2, annotations |-> "bold"]
    ELSE IF st(<<"*">>) /\ SLen(part) > 2 THEN [n |-> 1, annotations |-> "italic"]
    ELSE IF st(<<"_">>) /\ SLen(part) > 2 THEN [n |-> 1, annotations |-> "italic"]
    ELSE IF st(<<Backtick>>) THEN [n |-> 1, annotations |-> "code"]
    ELSE [n |-> 0, annotations |-> "none"]

\* The runs of one part of _parse_formatted_text.
PartRuns(part) ==
    IF part = <<>> THEN <<>>
    ELSE Chunks(Inner(part, Marks(part).n, Marks(part).n), Marks(part).annotations)

RECURSIVE PartsRuns(_)
PartsRuns(parts) ==
    IF parts = <<>> THEN <<>> ELSE PartRuns(parts[1]) \o PartsRuns(Tail(parts))

_parse_formatted_text(text) ==
    IF text = <<>> THEN <<>>
    ELSE PartsRuns(SplitParts(text, FindIter(text, FORMAT_PATTERNS, 1), 1))

BARE_URL_PATTERN ==
    LET stop == Whitespace \cup {"<", ">", "[", "]", "(", ")"} IN
    << [els |-> <<Lit(<<"h", "t", "t", "p", "s", ":", "/", "/">>), Run(stop, 1)>>,
        nb |-> {"("}, na |-> {}],
       [els |-> <<Lit(<<"h", "t", "t", "p", ":", "/", "/">>), Run(stop, 1)>>,
        nb |-> {"("}, na |-> {}] >>

\* What a GET of a page yields for its title: none (an error, a status other
\* than 200, no title tag, a title that cleans to nothing) or the cleaned title.
NoTitle == [none |-> TRUE, title |-> <<>>]

SomeTitle(t) == [none |-> FALSE, title |-> t]

\* A fetch that caches only the titles found.
FetchCachingTitlesOnly(b, web, url) ==
    IF url \in DOMAIN b.title_cache THEN [ret |-> b.title_cache[url], b |-> b]
    ELSE LET got == IF url \in DOMAIN web THEN web[url] ELSE NoTitle IN
         [ret |-> got,
          b   |-> [title_cache |-> IF got.none THEN b.title_cache
                                   ELSE (url :> got) @@ b.title_cache,
                   fetches |-> Append(b.fetches, url)]]

\* _fetch_page_title on the builder state b = [title_cache, fetches], web the
\* answer of each url to a GET; fetches lists the GETs made.  Yields [ret, b].
_fetch_page_title(b, web, url) ==
    IF url \in DOMAIN b.title_cache THEN [ret |-> b.title_cache[url], b |-> b]
    ELSE LET got == IF url \in DOMAIN web THEN web[url] ELSE NoTitle IN
         [ret |-> got,
          b   |-> [title_cache |-> (url :> got) @@ b.title_cache,
                   fetches |-> Append(b.fetches, url)]]

\* The url of the match m of BARE_URL_PATTERN, its trailing punctuation stripped.
RawUrl(text, m) ==
    RStrip(Sub(text, MStart(m), MEnd(m)), {".", ",", ";", ":", "!", "?", ")", "\"", "'"})

\* A link run that shows the whole title or URL.
UrlRunUncut(text, acc, m, raw_url, url, title) ==
    [segments |->
        acc.segments
        \o (IF MStart(m) > acc.last
            THEN _parse_formatted_text(Sub(text, acc.last, MStart(m)))
            ELSE <<>>)
        \o <<TextRun(IF ~title.ret.none /\ title.ret.title # <<>>
                     THEN title.ret.title ELSE url,
                     "none", url)>>,
     last |-> MStart(m) + Len(raw_url),
     b |-> title.b]

\* The text before a bare url and the link run of the url, added to
\* acc = [segments, last, b]; title is what _fetch_page_title returned.
UrlRun(text, acc, m, raw_url, url, title) ==
    [segments |->
        acc.segments
        \o (IF MStart(m) > acc.last
            THEN _parse_formatted_text(Sub(text, acc.last, MStart(m)))
            ELSE <<>>)
        \o <<TextRun(Take(IF ~title.ret.none /\ title.ret.title # <<>>
                          THEN title.ret.title ELSE url, RunCap),
                     "none", url)>>,
     last |-> MStart(m) + Len(raw_url),
     b |-> title.b]

\* One match of the loop of _parse_text_with_urls: a url that does not
\* validate is left to the text around it.
UrlStep(text, web, acc, m, raw_url, url) ==
    IF url = <<>> THEN acc
    ELSE UrlRun(text, acc, m, raw_url, url, _fetch_page_title(acc.b, web, url))

\* The loop of _parse_text_with_urls over the matches ms; last is the item
\* index that last_end stands at.
RECURSIVE UrlLoop(_, _, _, _)
UrlLoop(text, web, ms, acc) ==
    IF ms = <<>> THEN acc
    ELSE UrlLoop(text, web, Tail(ms),
                 UrlStep(text, web, acc, ms[1], RawUrl(text, ms[1]),
                         _sanitize_url(RawUrl(text, ms[1]))))

\* After the loop of _parse_text_with_urls: rest is the text after the last url.
UrlsEnd(text, acc, rest) ==
    [segments |-> IF acc.segments \o rest = <<>> THEN _parse_formatted_text(text)
                  ELSE acc.segments \o rest,
     b |-> acc.b]

UrlsRest(text, acc) ==
    UrlsEnd(text, acc,
            IF acc.last <= Len(text)
            THEN _parse_formatted_text(SubSeq(text, acc.last, Len(text)))
            ELSE <<>>)

\* _parse_text_with_urls: [segments, b].
_parse_text_with_urls(b, web, text) ==
    IF text = <<>> THEN [segments |-> <<>>, b |-> b]
    ELSE UrlsRest(text, UrlLoop(text, web, FindIter(text, BARE_URL_PATTERN, 1),
                                [segments |-> <<>>, last |-> 1, b |-> b]))

LINK_PATTERN ==
    Pat(<<Lit(<<"[">>), Run({"]"}, 1), Lit(<<"]", "(">>), Run({")"}, 1), Lit(<<")">>)>>)

\* The runs of the markdown link m, added to acc after the runs before of the
\* text in front of it.
LinkRun(text, acc, m, before, link_url) ==
    [segments |->
        acc.segments \o before.segments
        \o (IF link_url # <<>>
            THEN <<TextRun(Take(Grp(text, m, 2, 3), RunCap), "none", link_url)>>
            ELSE _parse_formatted_text(Grp(text, m, 2, 3))),
     last |-> MEnd(m),
     b |-> before.b]

\* The loop of _rich_text over the markdown links ms; acc = [segments, last, b].
RECURSIVE LinkLoop(_, _, _, _)
LinkLoop(text, web, ms, acc) ==
    IF ms = <<>> THEN acc
    ELSE LinkLoop(text, web, Tail(ms),
                  LinkRun(text, acc, ms[1],
                          IF MStart(ms[1]) > acc.last
                          THEN _parse_text_with_urls(acc.b, web,
                                                     Sub(text, acc.last, MStart(ms[1])))
                          ELSE [segments |-> <<>>, b |-> acc.b],
                          _sanitize_url(Grp(text, ms[1], 4, 5))))

EmptyRun == TextRun(<<>>, "none", <<>>)

\* After the loop of _rich_text: rest is the runs of the text after the last link.
LinksEnd(acc, rest) ==
    [segments |-> IF acc.segments \o rest.segments # <<>>
                  THEN acc.segments \o rest.segments ELSE <<EmptyRun>>,
     b |-> rest.b]

\* The text after the last link; when there is none the segmenter of bare urls
\* is given the empty text, for which it returns no run and fetches nothing.
LinksRest(text, web, acc) ==
    LinksEnd(acc, _parse_text_with_urls(acc.b, web, SubSeq(text, acc.last, Len(text))))

\* A _rich_text that would give the empty text the empty run as well.
RichTextNeverEmpty(b, web, text) ==
    IF text = <<>> THEN [segments |-> <<EmptyRun>>, b |-> b]
    ELSE LinksRest(text, web,
                   LinkLoop(text, web, FindIter(text, <<LINK_PATTERN>>, 1),
                            [segments |-> <<>>, last |-> 1, b |-> b]))

\* _rich_text: [segments, b].
_rich_text(b, web, text) ==
    IF text = <<>> THEN [segments |-> <<>>, b |-> b]
    ELSE LinksRest(text, web,
                   LinkLoop(text, web, FindIter(text, <<LINK_PATTERN>>, 1),
                            [segments |-> <<>>, last |-> 1, b |-> b]))

(***************************************************************************)
(* NotionBlockBuilder: blocks                                              *)
(***************************************************************************)
\* re.sub(pattern, group, text): each match of p replaced by the text between
\* its boundaries a and b.
RECURSIVE SubLoop(_, _, _, _, _)
SubLoop(text, ms, last, a, b) ==
    IF ms = <<>> THEN SubSeq(text, last, Len(text))
    ELSE Cat3(Sub(text, last, MStart(ms[1])),
              Sub(text, ms[1].bs[a], ms[1].bs[b]),
              SubLoop(text, Tail(ms), MEnd(ms[1]), a, b))

ReSub(text, p, a, b) == SubLoop(text, FindIter(text, <<p>>, 1), 1, a, b)

WIKILINK_LABEL_PATTERN ==
    Pat(<<Lit(<<"[", "[">>), Run({"]", "|"}, 1), Lit(<<"|">>), Run({"]"}, 1),
          Lit(<<"]", "]">>)>>)

WIKILINK_PLAIN_PATTERN ==
    Pat(<<Lit(<<"[", "[">>), Run({"]"}, 1), Lit(<<"]", "]">>)>>)

_convert_wikilinks(text) ==
    ReSub(ReSub(text, WIKILINK_LABEL_PATTERN, 4, 5), WIKILINK_PLAIN_PATTERN, 2, 3)

\* A block of the page.  upload is the file_upload id of an attachment block.
Block(type, rich_text) ==
    [type |-> type, rich_text |-> rich_text, checked |-> FALSE, language |-> <<>>,
     upload |-> <<>>]

\* A block whose rich text is r.segments: [block, b].
Built(type, r) == [block |-> Block(type, r.segments), b |-> r.b]

\* A block whose rich text is _rich_text(text): [block, b].
TextBlock(b, web, type, text) == Built(type, _rich_text(b, web, text))

_paragraph_block(b, web, text) == TextBlock(b, web, "paragraph", text)

_heading_block(b, web, text, level) ==
    TextBlock(b, web,
              CASE level = 1 -> "heading_1" [] level = 2 -> "heading_2"
                [] OTHER -> "heading_3",
              text)

_bullet_block(b, web, text) == TextBlock(b, web, "bulleted_list_item", text)

_numbered_block(b, web, text) == TextBlock(b, web, "numbered_list_item", text)

_quote_block(b, web, text) == TextBlock(b, web, "quote", text)

_todo_block(b, web, text, checked) ==
    [TextBlock(b, web, "to_do", text) EXCEPT !.block.checked = checked]

_callout_block(b, web, text) == TextBlock(b, web, "callout", text)

_divider_block == Block("divider", <<>>)

PlainText == Str(<<"p", "l", "a", "i", "n", " ", "t", "e", "x", "t">>)

lang_map ==
    (Str(<<"j", "s">>) :> Str(<<"j", "a", "v", "a", "s", "c", "r", "i", "p", "t">>))
    @@ (Str(<<"t", "s">>) :> Str(<<"t", "y", "p", "e", "s", "c", "r", "i", "p", "t">>))
    @@ (Str(<<"p", "y">>) :> Str(<<"p", "y", "t", "h", "o", "n">>))
    @@ (Str(<<"r", "b">>) :> Str(<<"r", "u", "b", "y">>))
    @@ (Str(<<"y", "m", "l">>) :> Str(<<"y", "a", "m", "l">>))
    @@ (Str(<<"s", "h">>) :> Str(<<"s", "h", "e", "l", "l">>))
    @@ (Str(<<"b", "a", "s", "h">>) :> Str(<<"s", "h", "e", "l", "l">>))
    @@ (Str(<<"z", "s", "h">>) :> Str(<<"s", "h", "e", "l", "l">>))
    @@ (<<>> :> PlainText)

\* A _code_block that would keep the whole code.
CodeBlockUncut(code, language) ==
    LET lower == Lower(language) IN
    [Block("code", <<TextRun(code, "none", <<>>)>>) EXCEPT
        !.language = IF lower \in DOMAIN lang_map THEN lang_map[lower] ELSE lower]

_code_block(code, language) ==
    LET lower == Lower(language) IN
    [Block("code", <<TextRun(Take(code, RunCap), "none", <<>>)>>) EXCEPT
        !.language = IF lower \in DOMAIN lang_map THEN lang_map[lower] ELSE lower]

\* _file_block: [none, block]; none when file_info has no file_upload_id.
_file_block(file_info) ==
    IF file_info.file_upload_id = <<>> THEN [none |-> TRUE, block |-> _divider_block]
    ELSE [none |-> FALSE,
          block |-> [Block(IF file_info.type \in {"image", "video", "audio", "pdf"}
                           THEN file_info.type ELSE "file", <<>>)
                        EXCEPT !.upload = file_info.file_upload_id]]

\* The paperclip emoji, U+1F4CE.
Clip == "paperclip"

AttachmentText(name, failed) ==
    Cat3(Str(<<Clip, " ", "A", "t", "t", "a", "c", "h", "m", "e", "n", "t", ":", " ">>),
         name,
         IF failed
         THEN Str(<<" ", "(", "u", "p", "l", "o", "a", "d", " ", "f", "a", "i", "l",
                    "e", "d", ")">>)
         ELSE <<>>)

(***************************************************************************)
(* NotionBlockBuilder.build_blocks                                          *)
(*                                                                         *)
(* The loop state is st = [blocks, in_code_block, code_block_lang,         *)
(* code_block_lines, b], b the builder state that _rich_text threads.      *)
(* file_info_map is the dict as a sequence of [original_ref, file_path,    *)
(* file_info] in insertion order.                                          *)
(***************************************************************************)
\* file_info_map[original_ref] = (file_path, file_info)
MapPut(map, entry) ==
    IF \E j \in DOMAIN map : map[j].original_ref = entry.original_ref
    THEN [j \in DOMAIN map |->
             IF map[j].original_ref = entry.original_ref THEN entry ELSE map[j]]
    ELSE Append(map, entry)

\* The body of the loop over parsed_note.file_references: [entry, u].
UploadRef(u, cfg, ref, page_id, exists, outcome) ==
    LET up == IF page_id # <<>>
              THEN upload_file(u, cfg, ref.file_path, page_id, exists, outcome)
              ELSE [ret |-> FileInfo(<<>>, ref.file_path, FALSE), u |-> u]
    IN  [entry |-> [original_ref |-> ref.original_ref, file_path |-> ref.file_path,
                    file_info |-> up.ret],
         u |-> up.u]

Emit(st, r) == [st EXCEPT !.blocks = Append(@, r.block), !.b = r.b]

Fence == Str(<<Backtick, Backtick, Backtick>>)

Newline == Str(<<"\n">>)

\* A line that starts with the fence marker.
FenceLine(st, line) ==
    IF ~st.in_code_block
    THEN [st EXCEPT !.in_code_block = TRUE,
                    !.code_block_lang = IF Strip(Drop(line, 3)) = <<>> THEN PlainText
                                        ELSE Strip(Drop(line, 3)),
                    !.code_block_lines = <<>>]
    ELSE [st EXCEPT !.blocks = Append(@, _code_block(Join(st.code_block_lines, Newline),
                                                     st.code_block_lang)),
                    !.in_code_block = FALSE]

\* if text: blocks.append(self._paragraph_block(self._convert_wikilinks(text)))
EmitText(st, web, text) ==
    IF text # <<>> THEN Emit(st, _paragraph_block(st.b, web, _convert_wikilinks(text)))
    ELSE st

\* The block of the file of an embed: the attachment block when the upload
\* gave an id, else the callout that names the file (marked failed when there
\* is no id), and nothing when upload_file returned None.
EmitFile(st, web, file_info) ==
    IF file_info.none THEN st
    ELSE IF file_info.file_upload_id # <<>> /\ ~_file_block(file_info).none
    THEN [st EXCEPT !.blocks = Append(@, _file_block(file_info).block)]
    ELSE Emit(st, _callout_block(st.b, web,
                      AttachmentText(file_info.name, file_info.file_upload_id = <<>>)))

\* The body of "if original_ref in line" for the entry e of file_info_map; at
\* is where original_ref first occurs in line.
EmbedAt(st, web, line, e, at) ==
    EmitText(EmitFile(EmitText(st, web, Strip(Sub(line, 1, at))), web, e.file_info),
             web,
             Strip(SubSeq(line, at + Len(e.original_ref), Len(line))))

EmbedLine(st, web, line, e) == EmbedAt(st, web, line, e, Find(line, e.original_ref, 1))

NUMBERED_PATTERN == Pat(<<In(Digits, 1), Lit(<<".", " ">>)>>)

DividerLines == {Str(<<"-", "-", "-">>), Str(<<"*", "*", "*">>), Str(<<"_", "_", "_">>)}

\* The chain "if line.startswith('# ') ... elif line.strip()" of build_blocks.
Dispatch(st, web, line) ==
    LET sw(cs) == StartsWith(line, Str(cs))
        num    == MatchAt(line, 1, NUMBERED_PATTERN)
    IN
    IF sw(<<"#", " ">>) THEN Emit(st, _heading_block(st.b, web, Drop(line, 2), 1))
    ELSE IF sw(<<"#", "#", " ">>) THEN Emit(st, _heading_block(st.b, web, Drop(line, 3), 2))
    ELSE IF sw(<<"#", "#", "#", " ">>)
    THEN Emit(st, _heading_block(st.b, web, Drop(line, 4), 3))
    ELSE IF sw(<<"-", " ">>) \/ sw(<<"*", " ">>)
    THEN Emit(st, _bullet_block(st.b, web, _convert_wikilinks(Drop(line, 2))))
    ELSE IF num # <<>>
    THEN Emit(st, _numbered_block(st.b, web,
                      _convert_wikilinks(SubSeq(line, num[Len(num)], Len(line)))))
    ELSE IF sw(<<"-", " ", "[", " ", "]", " ">>)
    THEN Emit(st, _todo_block(st.b, web, _convert_wikilinks(Drop(line, 6)), FALSE))
    ELSE IF sw(<<"-", " ", "[", "x", "]", " ">>) \/ sw(<<"-", " ", "[", "X", "]", " ">>)
    THEN Emit(st, _todo_block(st.b, web, _convert_wikilinks(Drop(line, 6)), TRUE))
    ELSE IF sw(<<">", " ">>)
    THEN Emit(st, _quote_block(st.b, web, _convert_wikilinks(Drop(line, 2))))
    ELSE IF Strip(line) \in DividerLines
    THEN [st EXCEPT !.blocks = Append(@, _divider_block)]
    ELSE IF Strip(line) # <<>>
    THEN Emit(st, _paragraph_block(st.b, web, _convert_wikilinks(line)))
    ELSE st

\* The entries of file_info_map whose original_ref occurs in line, in dict order.
RefsIn(file_info_map, line) ==
    SelectSeq(file_info_map, LAMBDA e : Contains(line, e.original_ref))

\* A loop body that looks for file embeds before it looks at the fence state.
BuildLineEmbedsFirst(st, web, file_info_map, line) ==
    IF StartsWith(line, Fence) THEN FenceLine(st, line)
    ELSE IF RefsIn(file_info_map, line) # <<>>
    THEN EmbedLine(st, web, line, RefsIn(file_info_map, line)[1])
    ELSE IF st.in_code_block
    THEN [st EXCEPT !.code_block_lines = Append(@, line)]
    ELSE Dispatch(st, web, line)

\* One iteration of the loop "while i < len(lines)" of build_blocks.
BuildLine(st, web, file_info_map, line) ==
    IF StartsWith(line, Fence) THEN FenceLine(st, line)
    ELSE IF st.in_code_block
    THEN [st EXCEPT !.code_block_lines = Append(@, line)]
    ELSE IF RefsIn(file_info_map, line) # <<>>
    THEN EmbedLine(st, web, line, RefsIn(file_info_map, line)[1])
    ELSE Dispatch(st, web, line)

\* A flush that would not look whether the open fence has lines.
BuildEndAlways(st) ==
    IF st.in_code_block
    THEN [st EXCEPT !.blocks = Append(@, _code_block(Join(st.code_block_lines, Newline),
                                                     st.code_block_lang))]
    ELSE st

\* After the loop: the pending lines of an open fence are flushed.
BuildEnd(st) ==
    IF st.in_code_block /\ st.code_block_lines # <<>>
    THEN [st EXCEPT !.blocks = Append(@, _code_block(Join(st.code_block_lines, Newline),
                                                     st.code_block_lang))]
    ELSE st

(***************************************************************************)
(* NotionMigrator and MigrationOrchestrator                                *)
(***************************************************************************)
\* ord(c) for the characters of file names
CharCode ==
    ("a" :> 97) @@ ("b" :> 98) @@ ("c" :> 99) @@ ("d" :> 100) @@ ("e" :> 101) @@ ("f" :> 102)
    @@ ("g" :> 103) @@ ("h" :> 104) @@ ("i" :> 105) @@ ("j" :> 106) @@ ("k" :> 107) @@ ("l" :> 108)
    @@ ("m" :> 109) @@ ("n" :> 110) @@ ("o" :> 111) @@ ("p" :> 112) @@ ("q" :> 113) @@ ("r" :> 114)
    @@ ("s" :> 115) @@ ("t" :> 116) @@ ("u" :> 117) @@ ("v" :> 118) @@ ("w" :> 119) @@ ("x" :> 120)
    @@ ("y" :> 121) @@ ("z" :> 122) @@ ("A" :> 65) @@ ("B" :> 66) @@ ("C" :> 67) @@ ("D" :> 68)
    @@ ("E" :> 69) @@ ("F" :> 70) @@ ("G" :> 71) @@ ("H" :> 72) @@ ("I" :> 73) @@ ("J" :> 74)
    @@ ("K" :> 75) @@ ("L" :> 76) @@ ("M" :> 77) @@ ("N" :> 78) @@ ("O" :> 79) @@ ("P" :> 80)
    @@ ("Q" :> 81) @@ ("R" :> 82) @@ ("S" :> 83) @@ ("T" :> 84) @@ ("U" :> 85) @@ ("V" :> 86)
    @@ ("W" :> 87) @@ ("X" :> 88) @@ ("Y" :> 89) @@ ("Z" :> 90) @@ ("0" :> 48) @@ ("1" :> 49)
    @@ ("2" :> 50) @@ ("3" :> 51) @@ ("4" :> 52) @@ ("5" :> 53) @@ ("6" :> 54) @@ ("7" :> 55)
    @@ ("8" :> 56) @@ ("9" :> 57) @@ (" " :> 32) @@ ("." :> 46) @@ ("-" :> 45) @@ ("_" :> 95)
    @@ ("!" :> 33) @@ ("#" :> 35) @@ ("%" :> 37) @@ ("(" :> 40) @@ (")" :> 41) @@ ("[" :> 91)
    @@ ("]" :> 93)

\* a < b as Python compares str (for names without a run of WideChar)
TextLess(a, b) ==
    LET m    == IF Len(a) < Len(b) THEN Len(a) ELSE Len(b)
        diff == {j \in 1..m : a[j][1] # b[j][1]}
    IN  IF diff = {} THEN Len(a) < Len(b)
        ELSE CharCode[a[Min(diff)][1]] < CharCode[b[Min(diff)][1]]

\* sorted(paths, reverse=True) of paths of one directory: by name, descending.
RECURSIVE SortedReverse(_)
SortedReverse(paths) ==
    IF paths = <<>> THEN <<>>
    ELSE LET top == CHOOSE j \in DOMAIN paths :
                        \A h \in DOMAIN paths :
                            h = j \/ TextLess(PathName(paths[h]), PathName(paths[j]))
         IN  <<paths[top]>>
             \o SortedReverse([h \in 1..(Len(paths) - 1) |->
                                  IF h < top THEN paths[h] ELSE paths[h + 1]])

SKIP_DIRS ==
    {FilesName, Str(<<".", "o", "b", "s", "i", "d", "i", "a", "n">>),
     Str(<<".", "t", "r", "a", "s", "h">>), Str(<<".", "g", "i", "t">>)}

_should_skip_dir(dir_path) ==
    LET name == Lower(PathName(dir_path)) IN
    StartsWith(name, Str(<<".">>)) \/ name \in SKIP_DIRS

\* A directory whose notes are put under no page.
ContentsUnderNone(vault, dir_path, parent_id) ==
    LET subdirs  == SortedReverse(SelectSeq(DirsIn(vault, dir_path),
                                            LAMBDA d : ~_should_skip_dir(d)))
        md_files == SortedReverse(SelectSeq(IterDir(vault, dir_path),
                       LAMBDA f : EndsWith(PathName(f), Str(<<".", "m", "d">>))))
    IN  [j \in DOMAIN subdirs |->
            [kind |-> "dir", path |-> subdirs[j], parent_id |-> parent_id]]
        \o [j \in DOMAIN md_files |->
            [kind |-> "note", path |-> md_files[j], parent_id |-> <<>>]]

\* The tasks of _migrate_directory_contents(dir_path, parent_id): the
\* subdirectories first, then the markdown files, each sorted in reverse.
Contents(vault, dir_path, parent_id) ==
    LET subdirs  == SortedReverse(SelectSeq(DirsIn(vault, dir_path),
                                            LAMBDA d : ~_should_skip_dir(d)))
        md_files == SortedReverse(SelectSeq(IterDir(vault, dir_path),
                       LAMBDA f : EndsWith(PathName(f), Str(<<".", "m", "d">>))))
    IN  [j \in DOMAIN subdirs |->
            [kind |-> "dir", path |-> subdirs[j], parent_id |-> parent_id]]
        \o [j \in DOMAIN md_files |->
            [kind |-> "note", path |-> md_files[j], parent_id |-> parent_id]]

\* The title of the page of a note.
PageTitle(parsed) ==
    IF parsed.date.none THEN parsed.title
    ELSE Strip(Cat3(FormatDate(parsed.date), Str(<<" ">>), parsed.title))

BatchSize == 100

(***************************************************************************)
(* State                                                                   *)
(***************************************************************************)
VARIABLES
    pc,                  \* where the run is
    dry_run, skip_files, \* Config
    vault, texts,        \* the files on disk, and the text of each note
    upload_cache, failed_uploads, successful_uploads,  \* NotionFileUploader
    requests,            \* the file-upload requests sent to the remote API so far
    calls,               \* the number of upload_file calls made so far
    unresolved_references,    \* ObsidianParser
    title_cache, fetches,     \* NotionBlockBuilder, and the GETs it has made
    created_pages,            \* NotionMigrator
    pages, appended,          \* the remote workspace: pages created, batches appended
    stats,                    \* MigrationOrchestrator
    todo,                     \* the directories and notes still to migrate, in order
    parsed, note_page_id,     \* _migrate_note
    file_info_map, k,         \* build_blocks: the loop over file_references
    lines, i, blocks, in_code_block, code_block_lang, code_block_lines,
    sent                      \* add_blocks: the blocks appended so far

cfgVars == <<dry_run, skip_files>>

diskVars == <<vault, texts>>

upVars == <<upload_cache, failed_uploads, successful_uploads, requests>>

builderVars == <<title_cache, fetches>>

remoteVars == <<created_pages, pages, appended>>

refVars == <<file_info_map, k>>

lineVars == <<lines, i, blocks, in_code_block, code_block_lang, code_block_lines>>

noteVars == <<parsed, note_page_id, refVars, lineVars, sent>>

vars ==
    <<pc, cfgVars, diskVars, upVars, calls, unresolved_references, builderVars,
      remoteVars, stats, todo, noteVars>>

Config == [dry_run |-> dry_run, skip_files |-> skip_files]

Uploader ==
    [upload_cache |-> upload_cache, failed_uploads |-> failed_uploads,
     successful_uploads |-> successful_uploads, requests |-> requests]

SetUploader(u) ==
    /\ upload_cache' = u.upload_cache
    /\ failed_uploads' = u.failed_uploads
    /\ successful_uploads' = u.successful_uploads
    /\ requests' = u.requests

\* The loop state of build_blocks.
LoopState ==
    [blocks |-> blocks, in_code_block |-> in_code_block,
     code_block_lang |-> code_block_lang, code_block_lines |-> code_block_lines,
     b |-> [title_cache |-> title_cache, fetches |-> fetches]]

SetLoopState(st) ==
    /\ blocks' = st.blocks
    /\ in_code_block' = st.in_code_block
    /\ code_block_lang' = st.code_block_lang
    /\ code_block_lines' = st.code_block_lines
    /\ title_cache' = st.b.title_cache
    /\ fetches' = st.b.fetches

\* The page the run migrates into (Config.parent_page_id).
RootPage == <<"parent">>

NoNote ==
    [title |-> <<>>, date |-> NoDate, content |-> <<>>, frontmatter |-> <<>>,
     file_references |-> <<>>, internal_links |-> <<>>]

\* NotionFileUploader.__init__
InitUploader ==
    /\ upload_cache = <<>>
    /\ failed_uploads = <<>>
    /\ successful_uploads = <<>>
    /\ requests = <<>>

\* The locals of _migrate_note, build_blocks and add_blocks before any note.
InitNote ==
    /\ parsed = NoNote
    /\ note_page_id = <<>>
    /\ file_info_map = <<>>
    /\ k = 0
    /\ lines = <<>>
    /\ i = 0
    /\ blocks = <<>>
    /\ in_code_block = FALSE
    /\ code_block_lang = <<>>
    /\ code_block_lines = <<>>
    /\ sent = 0

\* MigrationOrchestrator.__init__ over the vault v whose notes read as t.
InitRun(v, t) ==
    /\ pc = "run"
    /\ dry_run \in BOOLEAN
    /\ skip_files \in BOOLEAN
    /\ vault = v
    /\ texts = t
    /\ InitUploader
    /\ calls = 0
    /\ unresolved_references = <<>>
    /\ title_cache = <<>>
    /\ fetches = <<>>
    /\ created_pages = <<>>
    /\ pages = <<>>
    /\ appended = <<>>
    /\ stats = [directories |-> 0, notes |-> 0, files |-> 0, errors |-> 0]
    /\ todo = Contents(v, <<>>, RootPage)
    /\ InitNote

(***************************************************************************)
(* The run: one action per step of MigrationOrchestrator.run.  The head of *)
(* todo is the directory or note being migrated.                           *)
(***************************************************************************)
\* A create_page that sends its request in a dry run too.
CreatePageAlways(m, cfg, parent_id, title) ==
    LET page_id == <<"page", Len(m.pages) + 1>> IN
    [ret |-> page_id,
     m   |-> [created_pages |-> (title :> page_id) @@ m.created_pages,
              pages |-> Append(m.pages, [id |-> page_id, parent_id |-> parent_id,
                                         title |-> title])]]

\* NotionMigrator.create_page when the request succeeds, on
\* m = [created_pages, pages]: [ret, m].
create_page(m, cfg, parent_id, title) ==
    IF cfg.dry_run
    THEN LET fake_id == <<"dry-run", Cardinality(DOMAIN m.created_pages)>> IN
         [ret |-> fake_id,
          m   |-> [m EXCEPT !.created_pages = (title :> fake_id) @@ @]]
    ELSE LET page_id == <<"page", Len(m.pages) + 1>> IN
         [ret |-> page_id,
          m   |-> [created_pages |-> (title :> page_id) @@ m.created_pages,
                   pages |-> Append(m.pages, [id |-> page_id, parent_id |-> parent_id,
                                              title |-> title])]]

Migrator == [created_pages |-> created_pages, pages |-> pages]

SetMigrator(m) ==
    /\ created_pages' = m.created_pages
    /\ pages' = m.pages

\* An except clause that would also count the abandoned note as migrated.
NoteFailedAndCounted ==
    /\ stats' = [stats EXCEPT !.errors = @ + 1, !.notes = @ + 1]
    /\ todo' = Tail(todo)
    /\ pc' = "run"

\* The except clause of _migrate_note: the note is abandoned.
NoteFailed ==
    /\ stats' = [stats EXCEPT !.errors = @ + 1]
    /\ todo' = Tail(todo)
    /\ pc' = "run"

\* _migrate_directory
MigrateDirectory ==
    /\ pc = "run" /\ todo # <<>> /\ todo[1].kind = "dir"
    /\ LET dir == todo[1]
           r   == create_page(Migrator, Config, dir.parent_id, PathName(dir.path))
       IN  /\ SetMigrator(r.m)
           /\ todo' = Contents(vault, dir.path, r.ret) \o Tail(todo)
    /\ stats' = [stats EXCEPT !.directories = @ + 1]
    /\ UNCHANGED <<pc, cfgVars, diskVars, upVars, calls, unresolved_references,
                   builderVars, appended, noteVars>>

\* _migrate_directory when create_page raises: nothing catches it.
MigrateDirectoryFails ==
    /\ pc = "run" /\ todo # <<>> /\ todo[1].kind = "dir"
    /\ ~dry_run
    /\ pc' = "crashed"
    /\ UNCHANGED <<cfgVars, diskVars, upVars, calls, unresolved_references,
                   builderVars, remoteVars, stats, todo, noteVars>>

\* The locals of build_blocks and add_blocks of the note before.
ResetNote ==
    /\ note_page_id' = <<>>
    /\ file_info_map' = <<>>
    /\ k' = 0
    /\ lines' = <<>>
    /\ i' = 0
    /\ blocks' = <<>>
    /\ in_code_block' = FALSE
    /\ code_block_lang' = <<>>
    /\ code_block_lines' = <<>>
    /\ sent' = 0

\* _migrate_note: parse_file returned r.
Parsed(r) ==
    /\ parsed' = r.note
    /\ unresolved_references' = r.unresolved

\* _migrate_note: parse_file returns.
ParseNote ==
    /\ pc = "run" /\ todo # <<>> /\ todo[1].kind = "note"
    /\ IsFile(vault, todo[1].path) /\ todo[1].path \in DOMAIN texts
    /\ Parsed(parse_file(vault, unresolved_references, todo[1].path,
                         texts[todo[1].path]))
    /\ ResetNote
    /\ pc' = "create"
    /\ UNCHANGED <<cfgVars, diskVars, upVars, calls, builderVars, remoteVars, stats,
                   todo>>

\* The prefixes of the entries grown that hold the entries before: when the
\* parse recorded no reference after its last unresolved one, the raise came
\* before that entry.
RaisedPrefixes(before, grown, resolved_none) ==
    {SubSeq(grown, 1, n) :
        n \in Len(before)..(IF resolved_none /\ Len(grown) > Len(before)
                            THEN Len(grown) - 1 ELSE Len(grown))}

\* What a parse_file that raises midway had recorded: r is what it would have
\* returned.
RaisedOf(r) ==
    RaisedPrefixes(unresolved_references, r.unresolved, r.note.file_references = <<>>)

\* The states parse_file may leave unresolved_references in when it raises:
\* read_text raises before anything is recorded; a file-system check of
\* _resolve_file_path raises after the references before it were recorded.
RaisedUnresolved ==
    IF IsFile(vault, todo[1].path) /\ todo[1].path \in DOMAIN texts
    THEN RaisedOf(parse_file(vault, unresolved_references, todo[1].path,
                             texts[todo[1].path]))
    ELSE {unresolved_references}

\* _migrate_note: parse_file raises.
ParseFails ==
    /\ pc = "run" /\ todo # <<>> /\ todo[1].kind = "note"
    /\ unresolved_references' \in RaisedUnresolved
    /\ parsed' = NoNote
    /\ ResetNote
    /\ NoteFailed
    /\ UNCHANGED <<cfgVars, diskVars, upVars, calls, builderVars, remoteVars>>

\* _migrate_note: the page of the note is created.
CreateNotePage ==
    /\ pc = "create"
    /\ LET r == create_page(Migrator, Config, todo[1].parent_id, PageTitle(parsed))
       IN  /\ SetMigrator(r.m)
           /\ note_page_id' = r.ret
    /\ k' = 1
    /\ pc' = "upload"
    /\ UNCHANGED <<cfgVars, diskVars, upVars, calls, unresolved_references,
                   builderVars, appended, stats, todo, parsed, file_info_map,
                   lineVars, sent>>

CreateNotePageFails ==
    /\ pc = "create"
    /\ ~dry_run
    /\ NoteFailed
    /\ UNCHANGED <<cfgVars, diskVars, upVars, calls, unresolved_references,
                   builderVars, remoteVars, noteVars>>

\* build_blocks: one iteration of the loop over parsed_note.file_references.
UploadReference ==
    /\ pc = "upload" /\ k <= Len(parsed.file_references)
    /\ \E exists \in BOOLEAN, outcome \in UploadOutcomes :
          LET r == UploadRef(Uploader, Config, parsed.file_references[k],
                             note_page_id, exists, outcome)
          IN  /\ SetUploader(r.u)
              /\ file_info_map' = MapPut(file_info_map, r.entry)
    /\ k' = k + 1
    /\ calls' = calls + 1
    /\ UNCHANGED <<pc, cfgVars, diskVars, unresolved_references, builderVars,
                   remoteVars, stats, todo, parsed, note_page_id, lineVars, sent>>

\* build_blocks: lines = content.split('\n') and the loop variables.
BeginLines ==
    /\ pc = "upload" /\ k > Len(parsed.file_references)
    /\ lines' = Split(parsed.content, Newline)
    /\ i' = 1
    /\ blocks' = <<>>
    /\ in_code_block' = FALSE
    /\ code_block_lang' = <<>>
    /\ code_block_lines' = <<>>
    /\ pc' = "lines"
    /\ UNCHANGED <<cfgVars, diskVars, upVars, calls, unresolved_references,
                   builderVars, remoteVars, stats, todo, parsed, note_page_id,
                   refVars, sent>>

\* The pages a bare URL of the notes may point at, and what a GET of each may
\* yield: no title, a short title, or a title longer than a run may be.
PageUrl == Str(<<"h", "t", "t", "p", ":", "/", "/", "a", ".", "b">>)

ShortTitle == Str(<<"T">>)

LongTitle == Rep(RunCap + 1)

Webs == [{PageUrl} -> {NoTitle, SomeTitle(ShortTitle), SomeTitle(LongTitle)}]

\* build_blocks: one iteration of the loop over the lines; i counts from 1.
NextLine ==
    /\ pc = "lines" /\ i <= Len(lines)
    /\ \E web \in Webs : SetLoopState(BuildLine(LoopState, web, file_info_map, lines[i]))
    /\ i' = i + 1
    /\ UNCHANGED <<pc, cfgVars, diskVars, upVars, calls, unresolved_references,
                   remoteVars, stats, todo, parsed, note_page_id, refVars, lines,
                   sent>>

\* build_blocks returns; _migrate_note counts the references of the note.
EndLines ==
    /\ pc = "lines" /\ i > Len(lines)
    /\ SetLoopState(BuildEnd(LoopState))
    /\ stats' = [stats EXCEPT !.files = @ + Len(parsed.file_references)]
    /\ sent' = 0
    /\ pc' = "built"
    /\ UNCHANGED <<cfgVars, diskVars, upVars, calls, unresolved_references,
                   remoteVars, todo, parsed, note_page_id, refVars, lines, i>>

\* add_blocks has requests left to send.
Appending == blocks # <<>> /\ ~dry_run /\ sent < Len(blocks)

\* An add_blocks that sends all the blocks left in one request.
AppendBatchUnbounded ==
    /\ pc = "built" /\ Appending
    /\ appended' = Append(appended,
                      [block_id |-> note_page_id,
                       children |-> SubSeq(blocks, sent + 1, Len(blocks))])
    /\ sent' = Len(blocks)
    /\ UNCHANGED <<pc, cfgVars, diskVars, upVars, calls, unresolved_references,
                   builderVars, created_pages, pages, stats, todo, parsed,
                   note_page_id, refVars, lineVars>>

\* add_blocks: one batch is appended to the page.
AppendBatch ==
    /\ pc = "built" /\ Appending
    /\ appended' = Append(appended,
                      [block_id |-> note_page_id,
                       children |-> SubSeq(blocks, sent + 1,
                                           Min({sent + BatchSize, Len(blocks)}))])
    /\ sent' = sent + BatchSize
    /\ UNCHANGED <<pc, cfgVars, diskVars, upVars, calls, unresolved_references,
                   builderVars, created_pages, pages, stats, todo, parsed,
                   note_page_id, refVars, lineVars>>

\* add_blocks: the request raises.
AppendBatchFails ==
    /\ pc = "built" /\ Appending
    /\ NoteFailed
    /\ UNCHANGED <<cfgVars, diskVars, upVars, calls, unresolved_references,
                   builderVars, remoteVars, noteVars>>

\* A _migrate_note that counts the note while blocks are still to be sent.
NoteDoneUnsent ==
    /\ pc = "built"
    /\ stats' = [stats EXCEPT !.notes = @ + 1]
    /\ todo' = Tail(todo)
    /\ pc' = "run"
    /\ UNCHANGED <<cfgVars, diskVars, upVars, calls, unresolved_references,
                   builderVars, remoteVars, noteVars>>

\* _migrate_note returns.
NoteDone ==
    /\ pc = "built" /\ ~Appending
    /\ stats' = [stats EXCEPT !.notes = @ + 1]
    /\ todo' = Tail(todo)
    /\ pc' = "run"
    /\ UNCHANGED <<cfgVars, diskVars, upVars, calls, unresolved_references,
                   builderVars, remoteVars, noteVars>>

\* run returns.
Finish ==
    /\ pc = "run" /\ todo = <<>>
    /\ pc' = "done"
    /\ UNCHANGED <<cfgVars, diskVars, upVars, calls, unresolved_references,
                   builderVars, remoteVars, stats, todo, noteVars>>

Next ==
    \/ MigrateDirectory
    \/ MigrateDirectoryFails
    \/ ParseNote
    \/ ParseFails
    \/ CreateNotePage
    \/ CreateNotePageFails
    \/ UploadReference
    \/ BeginLines
    \/ NextLine
    \/ EndLines
    \/ AppendBatch
    \/ AppendBatchFails
    \/ NoteDone
    \/ Finish

(***************************************************************************)
(* SpecUpload: any sequence of upload_file calls of one run.               *)
(***************************************************************************)
MaxCalls == 3

XPng == Str(<<"x", ".", "p", "n", "g">>)

APdf == Str(<<"a", ".", "p", "d", "f">>)

\* The paths the calls are made with; the last resolves to the first.
UploadPaths ==
    {<<FilesName, XPng>>, <<FilesName, APdf>>,
     <<FilesName, Str(<<".", ".">>), FilesName, XPng>>}

InitUpload ==
    /\ InitRun(<<>>, <<>>)
    /\ todo = <<>>

UploadCall ==
    /\ calls < MaxCalls
    /\ \E file_path \in UploadPaths, exists \in BOOLEAN, outcome \in UploadOutcomes :
          SetUploader(upload_file(Uploader, Config, file_path, RootPage, exists,
                                  outcome).u)
    /\ calls' = calls + 1
    /\ UNCHANGED <<pc, cfgVars, diskVars, unresolved_references, builderVars,
                   remoteVars, stats, todo, noteVars>>

NextUpload == UploadCall

SpecUpload == InitUpload /\ [][NextUpload]_vars

\* The create requests sent for the resolved path key.
CreatesFor(key) ==
    {j \in DOMAIN requests : requests[j].op = "create" /\ requests[j].file = key}

\* C1: with dry_run and skip_files off, over any sequence of upload_file calls the
\* remote upload is attempted at most once for each distinct resolved file path,
\* whether the first attempt succeeded or failed.
C1_UploadAtMostOncePerPath ==
    (~dry_run /\ ~skip_files) =>
        \A file_path \in UploadPaths : Cardinality(CreatesFor(Resolve(file_path))) <= 1

(***************************************************************************)
(* SpecRun: a run over a vault with a hidden directory, an attachment      *)
(* folder, a subdirectory and three notes.                                 *)
(***************************************************************************)
Md(cs) == Str(cs \o <<".", "m", "d">>)

RunVault ==
    << <<Str(<<".", "o", "b", "s", "i", "d", "i", "a", "n">>), Md(<<"w">>)>>,
       <<FilesName, XPng>>,
       <<Str(<<"s", "u", "b">>), Md(<<"c">>)>>,
       <<Md(<<"b">>)>>,
       <<Md(<<"a">>)>> >>

XPngEmbed == Str(<<"!", "[", "[", "x", ".", "p", "n", "g", "]", "]">>)

RunTexts ==
    (<<Str(<<"s", "u", "b">>), Md(<<"c">>)>> :> Str(<<"c">>))
    @@ (<<Md(<<"b">>)>> :> XPngEmbed)
    @@ (<<Md(<<"a">>)>> :> Str(<<"#", " ", "A">>))

RunScenario == [vault |-> RunVault, texts |-> RunTexts]

InitOver(scenarios) == \E s \in scenarios : InitRun(s.vault, s.texts)

InitRunVault == InitOver({RunScenario})

SpecRun == InitRunVault /\ [][Next]_vars

\* A step in which parse_file raises for the note at the head of todo.
ParseFailed ==
    /\ pc = "run" /\ todo # <<>> /\ todo[1].kind = "note"
    /\ pc' # "create"

\* C4: when parse_file fails for a note, no page is created and no block is
\* appended for that note, the error counter grows by one, the notes counter and
\* the other counters are unchanged, and the run goes on with what follows the
\* note in its directory.
C4_ParseFailureSkipsNote ==
    [][ParseFailed =>
          /\ pages' = pages /\ created_pages' = created_pages
          /\ appended' = appended
          /\ stats' = [stats EXCEPT !.errors = @ + 1]
          /\ todo' = Tail(todo)
          /\ pc' = "run"]_vars

\* A parse failure has happened after a note was migrated, and a note follows.
C4_Witness ==
    /\ pc = "run" /\ parsed = NoNote
    /\ stats.errors = 1 /\ stats.notes = 1
    /\ todo # <<>> /\ todo[1].kind = "note"

(***************************************************************************)
(* SpecNote: runs over a vault that holds two attachments and one note,    *)
(* the body of the note drawn from reference tokens, fenced blocks and     *)
(* single lines; the vault of SpecRun is among them.                       *)
(***************************************************************************)
MaxCodeLines == 2

NotePath == <<Md(<<"n">>)>>

NoteVault == << <<FilesName, XPng>>, <<FilesName, APdf>>, NotePath >>

NoteScenario(body) == [vault |-> NoteVault, texts |-> (NotePath :> body)]

LongText == Rep(RunCap + 1)

\* Tokens whose target is in no directory of the vault.
MissingTokens ==
    {Str(<<"!", "[", "[", "m", "i", "s", "s", "i", "n", "g", ".", "p", "d", "f", "]", "]">>),
     Str(<<"!", "[", "a", "l", "t", "]", "(", "m", "i", "s", "s", "i", "n", "g", ".", "p", "d", "f", ")">>),
     Str(<<"[", "t", "]", "(", "m", "i", "s", "s", "i", "n", "g", ".", "p", "d", "f", ")">>)}

\* A line with an embed between two words, and an image whose alt text holds
\* a bracket.
RefBodies ==
    MissingTokens
    \cup {Str(<<"s", "e", "e", " ", "!", "[", "[", "x", ".", "p", "n", "g", "]", "]", " ", "e", "n", "d">>),
          Str(<<"!", "[", "a", "[", "b", "]", "(", "x", ".", "p", "n", "g", ")">>)}

\* No tag, a tag that _code_block renames, and one in capitals after a space.
Langs == {<<>>, Str(<<"p", "y">>), Str(<<" ", "G", "o">>)}

CodeLines == {<<>>, Str(<<"x">>), LongText}

RECURSIVE ListsOf(_, _)
ListsOf(S, n) ==
    IF n = 0 THEN {<<>>}
    ELSE ListsOf(S, n - 1) \cup {Append(l, x) : l \in ListsOf(S, n - 1), x \in S}

CodeLists == ListsOf(CodeLines, MaxCodeLines)

\* The lines of a fenced block, and of one that is never closed.
FencedBlock(lang, content) == <<Fence \o lang>> \o content \o <<Fence>>

OpenFence(lang, content) == <<Fence \o lang>> \o content

FenceBodies ==
    {Join(FencedBlock(lang, content), Newline) : lang \in Langs, content \in CodeLists}
    \cup {Join(OpenFence(lang, content), Newline) : lang \in Langs, content \in CodeLists}

TodoLines ==
    {Str(<<"-", " ", "[", " ", "]", " ", "t", "a", "s", "k">>),
     Str(<<"-", " ", "[", "x", "]", " ", "t">>),
     Str(<<"-", " ", "[", "X", "]", " ", "t">>)}

EmptyTextLines == {Str(<<"#", " ">>), Str(<<"-", " ">>), Str(<<">", " ">>), Str(<<"1", ".", " ">>)}

BoldLine(t) == Cat3(Str(<<"*", "*">>), t, Str(<<"*", "*">>))

LinkLine(t, url) == Cat3(Str(<<"[">>), t, Str(<<"]", "(">>) \o url \o Str(<<")">>))

LongLines == {LongText, BoldLine(LongText), LinkLine(LongText, PageUrl), PageUrl}

LineBodies == TodoLines \cup EmptyTextLines \cup LongLines

NoteScenarios ==
    {NoteScenario(body) : body \in RefBodies \cup FenceBodies \cup LineBodies}

InitNoteVault == InitOver(NoteScenarios \cup {RunScenario})

SpecNote == InitNoteVault /\ [][Next]_vars

\* The text of a block: the contents of its runs, one after the other.
RECURSIVE RunsText(_)
RunsText(runs) ==
    IF runs = <<>> THEN <<>> ELSE Cat(runs[1].content, RunsText(Tail(runs)))

Text(block) == RunsText(block.rich_text)

AttachmentTypes == {"image", "video", "audio", "pdf", "file"}

\* Line j of the note is neither a fence line nor inside a fence.
OutsideFence(j) ==
    /\ ~StartsWith(lines[j], Fence)
    /\ Cardinality({n \in 1..(j - 1) : StartsWith(lines[n], Fence)}) % 2 = 0

\* The reference of the entry e of file_info_map left a trace: its attachment
\* block, a callout that names its file, or an entry of failed_uploads.
Traced(e) ==
    \/ /\ ~e.file_info.none /\ e.file_info.file_upload_id # <<>>
       /\ \E j \in DOMAIN blocks :
             /\ blocks[j].type \in AttachmentTypes
             /\ blocks[j].upload = e.file_info.file_upload_id
    \/ \E j \in DOMAIN blocks :
          /\ blocks[j].type = "callout"
          /\ Contains(Text(blocks[j]), PathName(e.file_path))
    \/ \E j \in DOMAIN failed_uploads : failed_uploads[j].file = e.file_path

\* C2: when build_blocks has returned, every resolved reference that it met in a
\* line outside a fence has left a trace, whatever upload_file did (succeeded,
\* failed, skip_files set, file missing at upload time): an attachment block, a
\* visible placeholder block, or an entry of failed_uploads.
C2_ResolvedTokenLeavesTrace ==
    pc = "built" =>
        \A j \in DOMAIN lines :
            (OutsideFence(j) /\ RefsIn(file_info_map, lines[j]) # <<>>)
                => Traced(RefsIn(file_info_map, lines[j])[1])

\* C3: a note whose only line is a reference token (embed, image or file link)
\* that does not resolve is built into no attachment block and a paragraph whose
\* text contains the token unchanged, and the note has exactly one entry in
\* unresolved_references.
C3_UnresolvedTokenKept ==
    (/\ pc = "built" /\ Len(lines) = 1 /\ lines[1] \in MissingTokens
     /\ parsed.file_references = <<>>) =>
        /\ \A j \in DOMAIN blocks : blocks[j].type \notin AttachmentTypes
        /\ \E j \in DOMAIN blocks :
              blocks[j].type = "paragraph" /\ Contains(Text(blocks[j]), lines[1])
        /\ Cardinality({j \in DOMAIN unresolved_references :
                           unresolved_references[j].note = todo[1].path}) = 1

\* C5: for every language tag lang and every list content of lines, a note that
\* is the fenced block of lang and content is built into exactly one code block,
\* whose language is lang (plain text when lang is empty) and whose content is
\* the lines of content joined by newline.
C5_FenceYieldsOneCodeBlock ==
    \A lang \in Langs, content \in CodeLists :
        (pc = "built" /\ lines = FencedBlock(lang, content)) =>
            /\ Len(blocks) = 1
            /\ blocks[1].type = "code"
            /\ blocks[1].language = (IF lang = <<>> THEN PlainText ELSE lang)
            /\ Text(blocks[1]) = Join(content, Newline)

\* The language of the code block of a fence whose tag is lang: the tag without
\* the space around it, in lower case, renamed by lang_map.
CodeLanguage(lang) ==
    IF Strip(lang) = <<>> THEN PlainText
    ELSE IF Lower(Strip(lang)) \in DOMAIN lang_map THEN lang_map[Lower(Strip(lang))]
    ELSE Lower(Strip(lang))

\* C5, amended: for every language tag lang and every list content of lines, a
\* note that is the fenced block of lang and content is built into exactly one
\* code block, whose language is lang stripped, lower-cased and renamed by the
\* alias table (plain text when lang is empty) and whose content is one run
\* holding the first 2000 characters of the lines of content joined by newline.
C5_FenceYieldsCappedCodeBlock ==
    \A lang \in Langs, content \in CodeLists :
        (pc = "built" /\ lines = FencedBlock(lang, content)) =>
            /\ Len(blocks) = 1
            /\ blocks[1].type = "code"
            /\ blocks[1].language = CodeLanguage(lang)
            /\ blocks[1].rich_text =
                  <<TextRun(Take(Join(content, Newline), RunCap), "none", <<>>)>>

\* A fenced block of two lines, the second longer than a run, was built.
C5_Witness ==
    /\ pc = "built"
    /\ lines = FencedBlock(Str(<<"p", "y">>), <<Str(<<"x">>), LongText>>)
    /\ Len(blocks) = 1

\* C6: when build_blocks returns while inside a fence, the last block is a code
\* block that holds the lines accumulated since the opening fence, however many
\* they are.
C6_OpenFenceFlushed ==
    (pc = "built" /\ in_code_block) =>
        /\ blocks # <<>>
        /\ blocks[Len(blocks)].type = "code"
        /\ Text(blocks[Len(blocks)]) = Join(code_block_lines, Newline)

\* build_blocks returns while inside a fence.
EndsInFence == pc = "lines" /\ pc' = "built" /\ in_code_block

\* C6, amended: when build_blocks reaches the end of the lines inside a fence
\* that has accumulated at least one line, it appends one code block whose
\* content is one run holding the first 2000 characters of the accumulated lines
\* joined by newline; when the fence has accumulated no line, it appends nothing.
C6_OpenFenceFlushedIfLines ==
    [][EndsInFence =>
          IF code_block_lines = <<>> THEN blocks' = blocks
          ELSE /\ Len(blocks') = Len(blocks) + 1
               /\ SubSeq(blocks', 1, Len(blocks)) = blocks
               /\ blocks'[Len(blocks')].type = "code"
               /\ blocks'[Len(blocks')].rich_text =
                     <<TextRun(Take(Join(code_block_lines, Newline), RunCap),
                               "none", <<>>)>>]_vars

\* A note that is an opening fence and nothing else was built.
C6_Witness ==
    /\ pc = "built" /\ in_code_block
    /\ Len(lines) = 1 /\ code_block_lines = <<>>

\* The note is built into the one to_do block of its line.
TodoOf(checked) ==
    /\ Len(blocks) = 1
    /\ blocks[1].type = "to_do"
    /\ blocks[1].checked = checked
    /\ Text(blocks[1]) = Drop(lines[1], 6)

\* C7: a note whose only line holds no reference and starts with '- [ ] ' is
\* built into a to_do block that is not checked, and one that starts with
\* '- [x] ' or '- [X] ' into a to_do block that is checked, the text being the
\* line after its first 6 characters; never into a bulleted_list_item.
C7_TodoLines ==
    (pc = "built" /\ Len(lines) = 1 /\ RefsIn(file_info_map, lines[1]) = <<>>) =>
        /\ StartsWith(lines[1], Str(<<"-", " ", "[", " ", "]", " ">>)) => TodoOf(FALSE)
        /\ (\/ StartsWith(lines[1], Str(<<"-", " ", "[", "x", "]", " ">>))
            \/ StartsWith(lines[1], Str(<<"-", " ", "[", "X", "]", " ">>))) => TodoOf(TRUE)

EmptyTextLine(line) ==
    \/ line \in {Str(<<"#", " ">>), Str(<<"#", "#", " ">>), Str(<<"#", "#", "#", " ">>),
                 Str(<<"-", " ">>), Str(<<"*", " ">>), Str(<<">", " ">>)}
    \/ /\ MatchAt(line, 1, NUMBERED_PATTERN) # <<>>
       /\ MatchAt(line, 1, NUMBERED_PATTERN)[Len(MatchAt(line, 1, NUMBERED_PATTERN))]
             = Len(line) + 1

SplitInto(t, annotations, link) ==
    /\ Len(blocks) = 1
    /\ \A n \in DOMAIN blocks[1].rich_text :
          /\ blocks[1].rich_text[n].annotations = annotations
          /\ blocks[1].rich_text[n].link = link
    /\ Text(blocks[1]) = t

CutTo(t, link) ==
    /\ Len(blocks) = 1
    /\ blocks[1].rich_text = <<TextRun(Take(t, RunCap), "none", link)>>

C10_SpansDisjoint ==
    \A a, b \in DOMAIN parsed.file_references :
        a # b =>
            \/ parsed.file_references[a].end <= parsed.file_references[b].start
            \/ parsed.file_references[b].end <= parsed.file_references[a].start

(***************************************************************************)
(* SpecResolve: runs over vaults that hold the note d/n.md, whose body is  *)
(* one embed, and a few of the files the strategies of _resolve_file_path  *)
(* look for; the vault of SpecRun is among them.                           *)
(***************************************************************************)
MaxPoolFiles == 2

ResolveNote == <<Str(<<"d">>), Str(<<"n", ".", "m", "d">>)>>

\* A reference whose URL-decoded form differs from it, and one with a
\* directory part.
EncodedRef == Str(<<"a", "%", "2", "0", "b", ".", "p", "n", "g">>)

DirRef == Str(<<"p", "/", "c", ".", "p", "n", "g">>)

ResolveRefs == {EncodedRef, DirRef}

\* The files that a strategy may find for each reference.
Pool(ref) ==
    IF ref = EncodedRef
    THEN << <<Str(<<"d">>), Str(<<"f", "i", "l", "e", "s">>), Str(<<"a", " ", "b", ".", "p", "n", "g">>)>>,
            <<Str(<<"d">>), Str(<<"f", "i", "l", "e", "s">>), Str(<<"a", "%", "2", "0", "b", ".", "p", "n", "g">>)>>,
            <<Str(<<"d">>), Str(<<"f", "i", "l", "e", "s">>), Str(<<"a", " ", "b", ".", "t", "x", "t">>)>>,
            <<Str(<<"d">>), Str(<<"a", " ", "b", ".", "p", "n", "g">>)>>,
            <<Str(<<"d">>), Str(<<"a", "%", "2", "0", "b", ".", "p", "n", "g">>)>>,
            <<Str(<<"a", " ", "b", ".", "p", "n", "g">>)>>,
            <<Str(<<"a", "%", "2", "0", "b", ".", "p", "n", "g">>)>>,
            <<Str(<<"e">>), Str(<<"a", " ", "b", ".", "p", "n", "g">>)>>,
            <<Str(<<"e">>), Str(<<"a", "%", "2", "0", "b", ".", "p", "n", "g">>)>>,
            <<Str(<<".", "h">>), Str(<<"a", " ", "b", ".", "p", "n", "g">>)>> >>
    ELSE << <<Str(<<"d">>), Str(<<"f", "i", "l", "e", "s">>), Str(<<"p">>), Str(<<"c", ".", "p", "n", "g">>)>>,
            <<Str(<<"d">>), Str(<<"f", "i", "l", "e", "s">>), Str(<<"c", ".", "p", "n", "g">>)>>,
            <<Str(<<"d">>), Str(<<"f", "i", "l", "e", "s">>), Str(<<"c", ".", "t", "x", "t">>)>>,
            <<Str(<<"d">>), Str(<<"p">>), Str(<<"c", ".", "p", "n", "g">>)>>,
            <<Str(<<"p">>), Str(<<"c", ".", "p", "n", "g">>)>>,
            <<Str(<<"e">>), Str(<<"c", ".", "p", "n", "g">>)>> >>

\* The elements of seq at the indices in S, in the order of seq.
Picked(seq, S) ==
    LET idx == SelectSeq([j \in DOMAIN seq |-> j], LAMBDA j : j \in S) IN
    [m \in DOMAIN idx |-> seq[idx[m]]]

EmbedOf(ref) == Cat3(Str(<<"!", "[", "[">>), ref, Str(<<"]", "]">>))

ResolveScenarios ==
    {[vault |-> Append(Picked(Pool(ref), S), ResolveNote),
      texts |-> (ResolveNote :> EmbedOf(ref))] :
        ref \in ResolveRefs,
        S \in {T \in SUBSET (1..10) : Cardinality(T) <= MaxPoolFiles}}

InitResolve == InitOver(ResolveScenarios \cup {RunScenario})

SpecResolve == InitResolve /\ [][Next]_vars

\* The reference of the embed that the note d/n.md consists of.
EmbeddedRef == CHOOSE ref \in ResolveRefs : texts[ResolveNote] = EmbedOf(ref)

\* The note d/n.md was parsed and its page is about to be created.
ResolveParsed ==
    /\ pc = "create" /\ todo # <<>> /\ todo[1].path = ResolveNote
    /\ ResolveNote \in DOMAIN texts

\* What _resolve_file_path returned for the embed of the note parsed.
Resolved ==
    IF parsed.file_references = <<>> THEN NonePath
    ELSE SomePath(parsed.file_references[1].file_path)

\* What strategy n of _resolve_file_path finds for the form r of a reference
\* of a note in directory d.
Strategy(n, r, d) ==
    LET at(p) == IF Exists(vault, p) THEN SomePath(Resolve(p)) ELSE NonePath IN
    CASE n = 1 -> at(JoinPath(d \o <<FilesName>>, r))
      [] n = 2 -> at(JoinPath(d \o <<FilesName>>, PathName(PathOf(r))))
      [] n = 3 -> at(JoinPath(d, r))
      [] n = 4 -> at(JoinPath(<<>>, r))
      [] n = 5 -> FirstPath(IterDir(vault, d \o <<FilesName>>),
                            LAMBDA f : \/ PathName(f) = PathName(PathOf(r))
                                       \/ Stem(PathName(f)) = Stem(PathName(PathOf(r))))
      [] OTHER -> _search_vault_for_file(vault, PathName(PathOf(r)))

\* The forms of a reference: URL-decoded and raw.
Forms(ref) == <<unquote(Strip(ref)), Strip(ref)>>

\* The matches of strategy n for either form.
StrategyMatches(n, ref, d) ==
    {Strategy(n, Forms(ref)[1], d), Strategy(n, Forms(ref)[2], d)} \ {NonePath}

\* The first of the results that is a path, none when none is.
FirstHit(results) ==
    LET hits == SelectSeq(results, LAMBDA h : ~h.none) IN
    IF hits = <<>> THEN NonePath ELSE hits[1]

\* C11 as stated: _resolve_file_path returns a match of the lowest-numbered
\* strategy that matches for the URL-decoded or the raw form of the
\* reference, and none when no strategy matches.
C11_LowestStrategyWins ==
    ResolveParsed =>
        LET d == SubSeq(ResolveNote, 1, Len(ResolveNote) - 1)
            matching == {n \in 1..6 : StrategyMatches(n, EmbeddedRef, d) # {}}
        IN  IF matching = {} THEN Resolved = NonePath
            ELSE Resolved \in StrategyMatches(
                     CHOOSE n \in matching : \A o \in matching : n <= o,
                     EmbeddedRef, d)

\* C11 amended: _resolve_file_path returns the first match in the order
\* strategies 1 to 5 for the URL-decoded form, then strategies 1 to 5 for the
\* raw form, then the vault-wide search; none when there is no match.
C11_DecodedFormFirst ==
    ResolveParsed =>
        LET d == SubSeq(ResolveNote, 1, Len(ResolveNote) - 1)
            f == Forms(EmbeddedRef)
        IN  Resolved =
                FirstHit([n \in 1..5 |-> Strategy(n, f[1], d)]
                         \o [n \in 1..5 |-> Strategy(n, f[2], d)]
                         \o <<Strategy(6, f[1], d)>>)

\* The raw form has a match in files/ (strategy 1) and the decoded form only
\* next to the note (strategy 3): the decoded form's match was returned.
C11_Witness ==
    /\ ResolveParsed
    /\ EmbeddedRef = EncodedRef
    /\ ~Strategy(1, Forms(EncodedRef)[2], <<ResolveNote[1]>>).none
    /\ \A n \in {1, 2} : Strategy(n, Forms(EncodedRef)[1], <<ResolveNote[1]>>).none
    /\ ~Strategy(3, Forms(EncodedRef)[1], <<ResolveNote[1]>>).none
    /\ Resolved = Strategy(3, Forms(EncodedRef)[1], <<ResolveNote[1]>>)

\* The files of the vault that lie in no hidden directory.
OutsideHidden ==
    {f \in {vault[n] : n \in DOMAIN vault} :
        \A n \in 1..(Len(f) - 1) : ~StartsWith(f[n], Str(<<".">>))}

\* C12: when strategies 1 to 5 find nothing for either form,
\* _resolve_file_path returns a file exactly when some vault file outside
\* every hidden directory is named as the URL-decoded or the raw basename of
\* the reference; otherwise it returns none and records exactly one
\* unresolved reference.
C12_VaultSearchBothBasenames ==
    (/\ ResolveParsed
     /\ \A n \in 1..5 : StrategyMatches(n, EmbeddedRef, <<ResolveNote[1]>>) = {})
    => LET names == {PathName(PathOf(Forms(EmbeddedRef)[n])) : n \in {1, 2}}
           named == {f \in OutsideHidden : PathName(f) \in names}
       IN  IF named # {}
           THEN ~Resolved.none /\ Resolved.path \in named
           ELSE /\ Resolved.none
                /\ unresolved_references =
                       <<[note |-> ResolveNote, reference |-> Strip(EmbeddedRef)]>>

(***************************************************************************)
(* SpecParse: runs over vaults of one note, whose content has a leading    *)
(* block between --- lines or whose name begins like a date; the vault of  *)
(* SpecRun is among them.                                                  *)
(***************************************************************************)
MaxBlockLines == 2

Delimiter == Str(<<"-", "-", "-">>)

\* The lines of a frontmatter block: with a colon, with two, with spaces
\* around key and value, without a colon, and a repeated key.
BlockLines == {Str(<<"a", ":", " ", "1">>), Str(<<"b", ":", "2", ":", "3">>), Str(<<" ", "k", " ", ":", " ", "v", " ">>), Str(<<"x">>), Str(<<"a", ":", "4">>)}

\* What follows the closing delimiter: nothing, the end of its line, a body,
\* and a body after a blank line.
AfterBlock ==
    {<<>>, Str(<<"\n">>), Str(<<"\n", "B", "o", "d", "y">>),
     Str(<<"\n", "\n", "B", "o", "d", "y">>)}

FrontBodies ==
    {Cat(Join(<<open>> \o block \o <<Delimiter>>, Str(<<"\n">>)), after) :
        open \in {Delimiter, Cat(Delimiter, Str(<<" ">>))},
        block \in ListsOf(BlockLines, MaxBlockLines),
        after \in AfterBlock}

FrontScenarios ==
    {[vault |-> <<NotePath>>, texts |-> (NotePath :> body)] : body \in FrontBodies}

\* File stems: a date before a title, a date alone, a date and spaces, a
\* title that ends in a space, digits that are no date of the calendar, a
\* year below 1000, and stems without the prefix.
Stems ==
    {Str(<<"2", "0", "2", "4", "-", "0", "1", "-", "0", "2", " ", "f", "o", "o">>), Str(<<"2", "0", "2", "4", "-", "0", "1", "-", "0", "2">>), Str(<<"2", "0", "2", "4", "-", "0", "1", "-", "0", "2", " ", " ">>), Str(<<"2", "0", "2", "4", "-", "0", "2", "-", "2", "9", "f", "o", "o", " ">>),
     Str(<<"2", "0", "2", "4", "-", "1", "3", "-", "4", "5", " ", "x">>), Str(<<"2", "0", "2", "3", "-", "0", "2", "-", "2", "9">>), Str(<<"0", "0", "0", "0", "-", "0", "1", "-", "0", "1">>), Str(<<"0", "9", "9", "9", "-", "1", "2", "-", "3", "1">>),
     Str(<<"n", "o", "t", "e", "s">>), Str(<<"2", "0", "2", "4", "-", "1", "-", "0", "2", " ", "a">>), Str(<<"2", "0", "2", "4", "0", "1", "0", "2", " ", "b">>)}

StemScenarios ==
    {[vault |-> <<<<Cat(stem, Str(<<".", "m", "d">>))>>>>,
      texts |-> (<<Cat(stem, Str(<<".", "m", "d">>))>> :> Str(<<"x">>))] :
        stem \in Stems}

InitParse == InitOver(FrontScenarios \cup StemScenarios \cup {RunScenario})

SpecParse == InitParse /\ [][Next]_vars

\* A note of one of the scenarios above was parsed.
FrontParsed ==
    /\ pc = "create" /\ todo # <<>> /\ todo[1].path = NotePath
    /\ texts[NotePath] \in FrontBodies

\* A line that holds --- and at most whitespace after it.
IsDelimiter(line) == RStrip(line, Whitespace) = Delimiter

\* s ends with t.
IsSuffix(t, s) == Len(t) <= Len(s) /\ SubSeq(s, Len(s) - Len(t) + 1, Len(s)) = t

\* C13: for a content that begins with a --- line and has a closing --- line
\* later, parse_file returns a body that holds nothing up to and including
\* the closing line, and a frontmatter map with an entry for every line of
\* the block that contains a colon, split at the first colon and trimmed;
\* also for an empty block and for a closing line that ends the file.
C13_FrontmatterStripped ==
    FrontParsed =>
        LET ls      == Split(texts[NotePath], Str(<<"\n">>))
            closing == {j \in 2..Len(ls) : IsDelimiter(ls[j])}
            j0      == Min(closing)
        IN  (IsDelimiter(ls[1]) /\ closing # {}) =>
                /\ IsSuffix(parsed.content,
                            Join(SubSeq(ls, j0 + 1, Len(ls)), Str(<<"\n">>)))
                /\ parsed.frontmatter = FrontmatterLines(SubSeq(ls, 2, j0 - 1), <<>>)

\* A note named by one of Stems was parsed.
StemParsed ==
    /\ pc = "create" /\ todo # <<>>
    /\ \E stem \in Stems : todo[1].path = <<Cat(stem, Str(<<".", "m", "d">>))>>

\* The stem of the note parsed.
ParsedStem ==
    CHOOSE stem \in Stems : todo[1].path = <<Cat(stem, Str(<<".", "m", "d">>))>>

\* The date that the first ten characters of s spell.
PrefixDate(s) ==
    [none |-> FALSE, year |-> Number(s, 1, 4), month |-> Number(s, 6, 7),
     day |-> Number(s, 9, 10)]

\* C14 as stated: for a stem that begins with 4 digits, '-', 2 digits, '-',
\* 2 digits, parse_file stores that prefix as the date and the title is the
\* stem without the prefix and the whitespace after it, or the prefix when
\* nothing remains; for every other stem the date is absent and the title is
\* the stem.
C14_DatePrefixStored ==
    StemParsed =>
        LET s    == ParsedStem
            rest == LStrip(SubSeq(s, 11, Len(s)), Whitespace)
        IN  IF HasDatePrefix(s)
            THEN /\ parsed.date = PrefixDate(s)
                 /\ parsed.title = IF rest = <<>> THEN SubSeq(s, 1, 10) ELSE rest
            ELSE parsed.date.none /\ parsed.title = s

\* C14 amended: for a stem that begins with 4 digits, '-', 2 digits, '-',
\* 2 digits that name a date of the calendar, parse_file stores that date
\* and the title is the stem without the prefix, trimmed of whitespace at
\* both ends, or the date as strftime prints it (the prefix, for a year from
\* 1000 on) when nothing remains; for every other stem, one whose digits name
\* no date of the calendar included, the date is absent and the title is the
\* stem.
C14_CalendarDateStored ==
    StemParsed =>
        LET s    == ParsedStem
            rest == Strip(SubSeq(s, 11, Len(s)))
            d    == PrefixDate(s)
        IN  IF /\ HasDatePrefix(s)
               /\ d.year >= 1 /\ d.month \in 1..12
               /\ d.day >= 1 /\ d.day <= DaysIn(d.year, d.month)
            THEN /\ parsed.date = d
                 /\ parsed.title = IF rest = <<>> THEN FormatDate(d) ELSE rest
                 /\ (rest = <<>> /\ d.year >= 1000) => parsed.title = SubSeq(s, 1, 10)
            ELSE parsed.date.none /\ parsed.title = s

\* A stem whose digits name no date of the calendar was parsed: no date, and
\* the stem is the title.
C14_Witness ==
    /\ StemParsed
    /\ ParsedStem = Str(<<"2", "0", "2", "4", "-", "1", "3", "-", "4", "5", " ", "x">>)
    /\ parsed.date.none
    /\ parsed.title = Str(<<"2", "0", "2", "4", "-", "1", "3", "-", "4", "5", " ", "x">>)

(***************************************************************************)
(* SpecTitles: runs over vaults of one note of two lines, each plain text, *)
(* a bare URL, a bare URL twice, or a markdown link; the vault of SpecRun  *)
(* is among them.  A GET that fails and a page without a title both end in *)
(* title_cache[url] = None: NoTitle stands for both.                       *)
(***************************************************************************)
TitleLines ==
    {Str(<<"x">>),
     PageUrl,
     Cat(Str(<<"s", "e", "e", " ">>), PageUrl),
     Cat3(PageUrl, Str(<<" ", "o", "r", " ">>), PageUrl),
     LinkLine(Str(<<"t">>), PageUrl),
     Cat3(BoldLine(Str(<<"b">>)), Str(<<" ">>), PageUrl)}

TitleScenarios ==
    {[vault |-> <<NotePath>>,
      texts |-> (NotePath :> Join(<<first, second>>, Str(<<"\n">>)))] :
        first \in TitleLines, second \in TitleLines}

InitTitles == InitOver(TitleScenarios \cup {RunScenario})

SpecTitles == InitTitles /\ [][Next]_vars

\* build_blocks returned for a note that holds the same line twice.
SameLineTwice ==
    /\ pc = "built" /\ todo # <<>> /\ todo[1].path = NotePath
    /\ Len(lines) = 2 /\ lines[1] = lines[2] /\ lines[1] \in TitleLines

\* C15: _rich_text called twice on the same line with the same builder
\* returns the same runs both times, whatever the first fetch of a title
\* yielded and whatever a later fetch would yield; the second call fetches
\* nothing.
C15_SameLineSameRuns ==
    SameLineTwice =>
        /\ Len(blocks) = 2
        /\ blocks[1].rich_text = blocks[2].rich_text
        /\ \A a, b \in DOMAIN fetches : fetches[a] = fetches[b] => a = b

\* The line with a bare URL was processed twice, the title of its page was
\* found by the one fetch made, and both paragraphs show it.
C15_Witness ==
    /\ SameLineTwice
    /\ lines[1] = Cat(Str(<<"s", "e", "e", " ">>), PageUrl)
    /\ fetches = <<PageUrl>>
    /\ title_cache[PageUrl] = SomeTitle(ShortTitle)
    /\ \A j \in {1, 2} : \E n \in DOMAIN blocks[j].rich_text :
           blocks[j].rich_text[n].content = ShortTitle

(***************************************************************************)
(* SpecUrls: runs over vaults of one note whose line is a markdown link    *)
(* [t](url); _rich_text hands url to _sanitize_url and links the run only  *)
(* when it is accepted.  The vault of SpecRun is among them.               *)
(***************************************************************************)
UrlInputs ==
    {Str(<<"h", "t", "t", "p", ":", "/", "/", "a", ".", "b">>), Str(<<"h", "t", "t", "p", "s", ":", "/", "/", "a", ".", "b", "/", "c">>), Str(<<" ", "h", "t", "t", "p", ":", "/", "/", "a", ".", "b", " ">>), Str(<<"h", "t", "t", "p", ":", "/", "/", "a", ".", "b", ":", "8", "0">>),
     Str(<<"h", "t", "t", "p", ":", "/", "/", "u", "@", "a", ".", "b">>), Str(<<"h", "t", "t", "p", ":", "/", "/", "u", ".", "v", "@", "h", "/", "x">>), Str(<<"h", "t", "t", "p", ":", "/", "/", ":", "8", ".", "0">>), Str(<<"h", "t", "t", "p", ":", "/", "/", "h">>),
     Str(<<"h", "t", "t", "p", "s", ":", "/", "/", "h", "/", "a", ".", "b">>), Str(<<"h", "t", "t", "p", ":", "/", "/", "h", ":", "8", "0">>), Str(<<"h", "t", "t", "p", ":", "/", "/">>), Str(<<"h", "t", "t", "p", "s", ":", "/", "/", "/", "a", ".", "b">>),
     Str(<<"f", "t", "p", ":", "/", "/", "a", ".", "b">>), Str(<<"a", ".", "b">>), Str(<<"/", "/", "a", ".", "b", "/", "c">>), Str(<<"m", "a", "i", "l", "t", "o", ":", "a", "@", "b", ".", "c">>)}

UrlScenarios ==
    {[vault |-> <<NotePath>>, texts |-> (NotePath :> LinkLine(Str(<<"t">>), url))] :
        url \in UrlInputs}

InitUrls == InitOver(UrlScenarios \cup {RunScenario})

SpecUrls == InitUrls /\ [][Next]_vars

\* build_blocks returned for the note that links to url.
LinkBuilt(url) ==
    /\ pc = "built" /\ todo # <<>> /\ todo[1].path = NotePath
    /\ texts[NotePath] = LinkLine(Str(<<"t">>), url)

\* The link of the note was kept: _sanitize_url accepted its URL.
Accepted == \E j \in DOMAIN blocks : \E n \in DOMAIN blocks[j].rich_text :
                blocks[j].rich_text[n].link # <<>>

\* The scheme of a URL: what stands before the first ':' when "//" follows
\* it, and <<>> when there is none.
SchemeOf(url) ==
    LET at == Find(url, Str(<<":", "/", "/">>), 1) IN
    IF at = 0 THEN <<>> ELSE Sub(url, 1, at)

\* The host of an absolute URL: what stands between "//" and the next '/',
\* '?' or '#', without the user information before '@' and the port after
\* ':'.
HostOf(url) ==
    LET at      == Find(url, Str(<<":", "/", "/">>), 1)
        rest    == SubSeq(url, at + 3, Len(url))
        netloc  == Sub(rest, 1, RunEnd(rest, 1, {"/", "?", "#"}))
        ats     == {j \in DOMAIN netloc : netloc[j][1] = "@"}
        hostport == IF ats = {} THEN netloc ELSE SubSeq(netloc, Max(ats) + 1, Len(netloc))
    IN  Sub(hostport, 1, RunEnd(hostport, 1, {":"}))

\* C16: _sanitize_url accepts every absolute URL whose scheme is http or
\* https and whose host contains a dot, and rejects every input without a
\* scheme, with another scheme, with an empty host or with a host that has
\* no dot.
C16_AcceptsByHost ==
    \A url \in UrlInputs :
        LinkBuilt(url) =>
            LET u == Strip(url) IN
            Accepted <=> /\ SchemeOf(u) \in {Str(<<"h", "t", "t", "p">>), Str(<<"h", "t", "t", "p", "s">>)}
                         /\ Contains(HostOf(u), Str(<<".">>))

\* C17: with dry_run set, no state of a run holds a page-create request, a
\* block-append request or a file-upload request (create or send), up to
\* and including the end of the run.
C17_DryRunIssuesNoRequest ==
    dry_run => requests = <<>> /\ pages = <<>> /\ appended = <<>>

\* A dry run ended after it went through a directory and a note with a file
\* reference: the pages and the upload were only pretended.
C17_Witness ==
    /\ pc = "done" /\ dry_run
    /\ stats.directories > 0 /\ stats.notes > 0 /\ stats.files > 0
    /\ DOMAIN created_pages # {}
    /\ DOMAIN upload_cache # {}

(***************************************************************************)
(* SpecTree: runs over a vault with a directory inside a directory, notes  *)
(* at three depths, and notes inside skipped directories; the vault of     *)
(* SpecRun is among them.                                                  *)
(***************************************************************************)
TreeVault ==
    << <<Str(<<".", "o", "b", "s", "i", "d", "i", "a", "n">>), Str(<<"w", ".", "m", "d">>)>>,
       <<Str(<<"f", "i", "l", "e", "s">>), Str(<<"x", ".", "p", "n", "g">>)>>,
       <<Str(<<"s", "u", "b">>), Str(<<"d", "e", "e", "p">>), Str(<<"d", ".", "m", "d">>)>>,
       <<Str(<<"s", "u", "b">>), Str(<<"f", "i", "l", "e", "s">>), Str(<<"y", ".", "m", "d">>)>>,
       <<Str(<<"s", "u", "b">>), Str(<<"c", ".", "m", "d">>)>>,
       <<Str(<<"a", ".", "m", "d">>)>> >>

TreeTexts ==
    (<<Str(<<"s", "u", "b">>), Str(<<"d", "e", "e", "p">>), Str(<<"d", ".", "m", "d">>)>> :> Str(<<"d">>)) @@ (<<Str(<<"s", "u", "b">>), Str(<<"f", "i", "l", "e", "s">>), Str(<<"y", ".", "m", "d">>)>> :> Str(<<"y">>))
    @@ (<<Str(<<"s", "u", "b">>), Str(<<"c", ".", "m", "d">>)>> :> Str(<<"c">>)) @@ (<<Str(<<"a", ".", "m", "d">>)>> :> Str(<<"a">>))
    @@ (<<Str(<<".", "o", "b", "s", "i", "d", "i", "a", "n">>), Str(<<"w", ".", "m", "d">>)>> :> Str(<<"w">>))

TreeScenario == [vault |-> TreeVault, texts |-> TreeTexts]

InitTree == InitOver({TreeScenario, RunScenario})

SpecTree == InitTree /\ [][Next]_vars

\* The directory that holds p.
Parent(p) == SubSeq(p, 1, Len(p) - 1)

\* The directory d and the directories above it are not skipped.
Walked(d) == \A n \in 1..Len(d) : ~_should_skip_dir(SubSeq(d, 1, n))

\* The directories of the vault, below its root, that the run walks into.
WalkedDirs ==
    {d \in UNION {{SubSeq(vault[n], 1, m) : m \in 1..(Len(vault[n]) - 1)} :
                      n \in DOMAIN vault} :
        Walked(d)}

\* The markdown notes in the root and in those directories.
WalkedNotes ==
    {f \in {vault[n] : n \in DOMAIN vault} :
        EndsWith(PathName(f), Str(<<".", "m", "d">>)) /\ Walked(Parent(f))}

\* The title of the page of a directory or note.
ItemTitle(p) ==
    IF IsDir(vault, p) THEN PathName(p)
    ELSE LET stem == Stem(PathName(p))
             date == _extract_date_from_filename(stem)
         IN  PageTitle([title |-> TitleOf(stem, date), date |-> date])

\* of maps every page created to a directory or note of its own whose title
\* it bears; the parent of the page is the page, created before it, of the
\* directory that holds the directory or note, and the destination page when
\* the root holds it.
Mirrors(of) ==
    /\ \A a, b \in DOMAIN pages : of[a] = of[b] => a = b
    /\ \A j \in DOMAIN pages :
          /\ pages[j].title = ItemTitle(of[j])
          /\ IF Len(of[j]) = 1 THEN pages[j].parent_id = RootPage
             ELSE \E h \in 1..(j - 1) :
                     of[h] = Parent(of[j]) /\ pages[j].parent_id = pages[h].id

\* C18 as stated: when a run that is no dry run has ended, every walked
\* directory has exactly one page, under the page of the directory that
\* holds it (the destination page for the root), every markdown note has a
\* page under the page of its directory, and the page of a directory was
\* created before the pages of its contents.
C18_PagesMirrorTree ==
    (pc = "done" /\ ~dry_run) =>
        \E of \in [DOMAIN pages -> WalkedDirs \cup WalkedNotes] :
            /\ Mirrors(of)
            /\ {of[j] : j \in DOMAIN pages} = WalkedDirs \cup WalkedNotes

\* C18 amended: when a run that is no dry run has ended, every page is the
\* page of one walked directory or markdown note, placed and ordered as
\* stated; every walked directory has its page, and the notes without a
\* page are at most as many as the errors counted.
C18_PagesMirrorTreeButFailedNotes ==
    (pc = "done" /\ ~dry_run) =>
        \E of \in [DOMAIN pages -> WalkedDirs \cup WalkedNotes] :
            /\ Mirrors(of)
            /\ WalkedDirs \subseteq {of[j] : j \in DOMAIN pages}
            /\ Cardinality(WalkedNotes \ {of[j] : j \in DOMAIN pages}) <= stats.errors

\* A run ended in which one note failed before its page was created: the two
\* directories and two of the three notes have their pages, the page of
\* sub/deep under the page of sub.
C18_Witness ==
    /\ pc = "done" /\ ~dry_run /\ vault = TreeVault
    /\ stats.errors = 1
    /\ Len(pages) = 4
    /\ \E h, j \in DOMAIN pages :
          /\ h < j
          /\ pages[h].title = Str(<<"s", "u", "b">>) /\ pages[h].parent_id = RootPage
          /\ pages[j].title = Str(<<"d", "e", "e", "p">>) /\ pages[j].parent_id = pages[h].id

(***************************************************************************)
(* SpecTokens: runs over the vault of SpecNote with a note of one line     *)
(* that holds one or two tokens of references that resolve; the vault of   *)
(* SpecRun is among them.                                                  *)
(***************************************************************************)
TokenLines ==
    {Str(<<"!", "[", "[", "x", ".", "p", "n", "g", "]", "]">>),
     Str(<<"s", "e", "e", " ", "!", "[", "[", "x", ".", "p", "n", "g", "]", "]", " ", "e", "n", "d">>),
     Str(<<"!", "[", "[", "x", ".", "p", "n", "g", "]", "]", " ", "a", "n", "d", " ", "!", "[", "[", "a", ".", "p", "d", "f", "]", "]">>),
     Str(<<"!", "[", "[", "a", ".", "p", "d", "f", "]", "]", "!", "[", "[", "x", ".", "p", "n", "g", "]", "]">>),
     Str(<<"a", " ", "!", "[", "[", "x", ".", "p", "n", "g", "]", "]", " ", "b", " ", "!", "[", "[", "x", ".", "p", "n", "g", "]", "]", " ", "c">>),
     Str(<<"!", "[", "a", "l", "t", "]", "(", "a", ".", "p", "d", "f", ")", " ", "o", "r", " ", "!", "[", "[", "x", ".", "p", "n", "g", "]", "]">>)}

TokenScenarios == {NoteScenario(line) : line \in TokenLines}

InitTokens == InitOver(TokenScenarios \cup {RunScenario})

SpecTokens == InitTokens /\ [][Next]_vars

\* The line cut at the tokens of the references of map, from left to right:
\* a piece for every token met and one for every stretch of text around
\* them that is not blank.
RECURSIVE Pieces(_, _)
Pieces(line, map) ==
    LET met   == {n \in DOMAIN map : Contains(line, map[n].original_ref)}
        at(n) == Find(line, map[n].original_ref, 1)
        text(t) == IF Strip(t) = <<>> THEN <<>>
                   ELSE <<[token |-> FALSE, text |-> Strip(t), upload |-> <<>>]>>
    IN  IF met = {} THEN text(line)
        ELSE LET n == CHOOSE n \in met : \A o \in met : at(n) <= at(o) IN
             text(Sub(line, 1, at(n)))
             \o <<[token |-> TRUE, text |-> map[n].original_ref,
                   upload |-> map[n].file_info.file_upload_id]>>
             \o Pieces(SubSeq(line, at(n) + Len(map[n].original_ref), Len(line)), map)

\* build_blocks returned for a note of TokenLines all of whose references
\* were uploaded.
TokensBuilt ==
    /\ pc = "built" /\ todo # <<>> /\ todo[1].path = NotePath
    /\ texts[NotePath] \in TokenLines
    /\ \A n \in DOMAIN file_info_map :
          ~file_info_map[n].file_info.none
          /\ file_info_map[n].file_info.file_upload_id # <<>>

\* C19: a line outside a fence with tokens of resolved references is built,
\* from left to right, into one attachment block for every occurrence of a
\* token and one paragraph for every stretch of text before, between and
\* after them that is not blank; no token is paragraph text, also when the
\* line holds two different tokens or one token twice.
C19_OneAttachmentPerToken ==
    TokensBuilt =>
        LET pieces == Pieces(lines[1], file_info_map) IN
        /\ Len(blocks) = Len(pieces)
        /\ \A j \in DOMAIN pieces :
              j \in DOMAIN blocks =>
                  IF pieces[j].token
                  THEN /\ blocks[j].type \in AttachmentTypes
                       /\ blocks[j].upload = pieces[j].upload
                  ELSE /\ blocks[j].type = "paragraph"
                       /\ Text(blocks[j]) = pieces[j].text

(***************************************************************************)
(* SpecFence: runs over the vault of SpecNote with a note that is one      *)
(* fence, closed or left open, around two lines that a rule of build_blocks *)
(* would take outside a fence: the token of a resolved reference, a bare   *)
(* URL, a heading, a to-do item, a divider.  The vault of SpecRun is among *)
(* them.                                                                   *)
(***************************************************************************)
RuleLines ==
    {Str(<<"!", "[", "[", "x", ".", "p", "n", "g", "]", "]">>), Str(<<"s", "e", "e", " ", "!", "[", "[", "x", ".", "p", "n", "g", "]", "]", " ", "e", "n", "d">>), PageUrl, Str(<<"#", " ", "H">>), Str(<<"-", " ", "[", " ", "]", " ", "t">>),
     Str(<<"-", "-", "-">>), <<>>}

FenceScenarios ==
    {NoteScenario(Join(<<Cat(Fence, lang), first, second>> \o close, Str(<<"\n">>))) :
        lang \in {<<>>, Str(<<"p", "y">>)}, first \in RuleLines, second \in RuleLines,
        close \in {<<>>, <<Fence>>}}

InitFence == InitOver(FenceScenarios \cup {RunScenario})

SpecFence == InitFence /\ [][Next]_vars

\* build_blocks takes line i, which is inside a fence and does not close it.
InsideFence ==
    /\ pc = "lines" /\ i <= Len(lines) /\ i' = i + 1
    /\ in_code_block /\ ~StartsWith(lines[i], Fence)

\* C20: processing a line inside a fence emits no block and applies no rule:
\* blocks stays as it is, the line is appended as it is to the pending code
\* lines, the fence stays open and no title is fetched, also when the line
\* holds the token of a resolved reference.
C20_FenceLineOnlyAccumulates ==
    [][InsideFence =>
          /\ blocks' = blocks
          /\ code_block_lines' = Append(code_block_lines, lines[i])
          /\ in_code_block' /\ code_block_lang' = code_block_lang
          /\ title_cache' = title_cache /\ fetches' = fetches]_vars

\* A line with the token of a resolved reference was taken inside a fence:
\* it is the last pending code line and there is no block.
C20_Witness ==
    /\ pc = "lines" /\ in_code_block /\ i = 3
    /\ RefsIn(file_info_map, lines[2]) # <<>>
    /\ code_block_lines = <<lines[2]>>
    /\ blocks = <<>>

(***************************************************************************)
(* SpecWiki: runs over the vault of SpecNote with a note of one line that  *)
(* holds wikilinks after the prefix of a heading, a list item, a to-do     *)
(* item or a quote, or after none; the vault of SpecRun is among them.     *)
(***************************************************************************)
WikiPrefixes ==
    {<<>>, Str(<<"#", " ">>), Str(<<"#", "#", " ">>), Str(<<"#", "#", "#", " ">>), Str(<<"-", " ">>), Str(<<"*", " ">>), Str(<<"1", ".", " ">>), Str(<<"-", " ", "[", " ", "]", " ">>),
     Str(<<"-", " ", "[", "x", "]", " ">>), Str(<<">", " ">>)}

\* Texts with wikilinks, and each as it reads with the wikilinks rendered.
WikiTexts ==
    {<<Str(<<"[", "[", "t", "]", "]">>), Str(<<"t">>)>>,
     <<Str(<<"[", "[", "t", "|", "L", "]", "]">>), Str(<<"L">>)>>,
     <<Str(<<"s", "e", "e", " ", "[", "[", "t", "|", "L", "]", "]", " ", "a", "n", "d", " ", "[", "[", "u", "]", "]">>), Str(<<"s", "e", "e", " ", "L", " ", "a", "n", "d", " ", "u">>)>>}

WikiScenarios ==
    {NoteScenario(Cat(prefix, w[1])) : prefix \in WikiPrefixes, w \in WikiTexts}

InitWiki == InitOver(WikiScenarios \cup {RunScenario})

SpecWiki == InitWiki /\ [][Next]_vars

\* The types of the blocks whose text goes through _rich_text.
TextTypes ==
    {"heading_1", "heading_2", "heading_3", "paragraph", "bulleted_list_item",
     "numbered_list_item", "to_do", "quote"}

\* build_blocks returned for the note whose line is prefix and then w[1].
WikiBuilt(prefix, w) ==
    /\ pc = "built" /\ todo # <<>> /\ todo[1].path = NotePath
    /\ texts[NotePath] = Cat(prefix, w[1])

\* C21: in the heading, paragraph, list item, to-do item or quote built
\* from a line, every wikilink reads as plain text, [[target|label]] as
\* label and [[target]] as target: no run holds "[[" or "]]" and no run has
\* a link.
C21_WikilinksRenderedPlain ==
    \A prefix \in WikiPrefixes, w \in WikiTexts :
        WikiBuilt(prefix, w) =>
            /\ Len(blocks) = 1
            /\ blocks[1].type \in TextTypes
            /\ Contains(Text(blocks[1]), w[2])
            /\ \A n \in DOMAIN blocks[1].rich_text :
                  LET run == blocks[1].rich_text[n] IN
                  /\ ~Contains(run.content, Str(<<"[", "[">>))
                  /\ ~Contains(run.content, Str(<<"]", "]">>))
                  /\ run.link = <<>>

(***************************************************************************)
(* SpecFetch: runs over the vault of SpecNote with a note of two lines,    *)
(* each plain text, a bare URL, the URL twice, or a URL longer than a run  *)
(* may be (no page answers it); the vault of SpecRun is among them.        *)
(***************************************************************************)
LongUrl == Cat3(PageUrl, Str(<<"/">>), Rep(RunCap))

FetchLines ==
    {Str(<<"x">>),
     Cat3(Str(<<"s", "e", "e", " ">>), PageUrl, Str(<<".">>)),
     Cat3(PageUrl, Str(<<" ", "o", "r", " ">>), PageUrl),
     LongUrl}

FetchScenarios ==
    {NoteScenario(Join(<<first, second>>, Str(<<"\n">>))) :
        first \in FetchLines, second \in FetchLines}

InitFetch == InitOver(FetchScenarios \cup {RunScenario})

SpecFetch == InitFetch /\ [][Next]_vars

\* Every URL was fetched at most once, and title_cache holds the fetched
\* URLs and no other.
FetchedOnce ==
    /\ \A a, b \in DOMAIN fetches : fetches[a] = fetches[b] => a = b
    /\ DOMAIN title_cache = {fetches[j] : j \in DOMAIN fetches}

\* An entry of title_cache is never written again.
WrittenOnce ==
    \A url \in DOMAIN title_cache :
        url \in DOMAIN title_cache' /\ title_cache'[url] = title_cache[url]

\* The runs built for the bare URLs whose fetch found no title show
\* shown(url) and link to the URL.
UntitledRuns(shown(_)) ==
    (pc = "built" /\ todo # <<>> /\ todo[1].path = NotePath
     /\ \A j \in DOMAIN lines : lines[j] \in FetchLines)
    => \A j \in DOMAIN blocks : \A n \in DOMAIN blocks[j].rich_text :
           LET run == blocks[j].rich_text[n] IN
           (run.link \in DOMAIN title_cache /\ title_cache[run.link].none)
               => run.content = shown(run.link)

BatchLineCounts == {0, 1, BatchSize, BatchSize + 1, 2 * BatchSize + 1}

\* n lines "x".
LinesOfX(n) ==
    [j \in 1..(2 * n - 1) |-> IF j % 2 = 1 THEN <<"x", 1>> ELSE <<"\n", 1>>]

BatchScenarios == {NoteScenario(LinesOfX(n)) : n \in BatchLineCounts}

InitBatch == InitOver(BatchScenarios \cup {RunScenario})

SpecBatch == InitBatch /\ [][Next]_vars

\* The blocks of the requests reqs, one after the other.
RECURSIVE Flat(_)
Flat(reqs) == IF reqs = <<>> THEN <<>> ELSE reqs[1].children \o Flat(Tail(reqs))

\* The append requests sent for the page of the note at hand.
SentForNote == SelectSeq(appended, LAMBDA r : r.block_id = note_page_id)

\* While add_blocks runs, the requests sent for the note hold at most 100
\* blocks each and, end to end, the first blocks of the list.
BatchesArePrefix ==
    (pc = "built" /\ ~dry_run) =>
        /\ \A j \in DOMAIN SentForNote :
              Len(SentForNote[j].children) \in 1..100
        /\ Len(Flat(SentForNote)) <= Len(blocks)
        /\ Flat(SentForNote) = SubSeq(blocks, 1, Len(Flat(SentForNote)))

\* A request is sent only by add_blocks, for the page of the note at hand,
\* with the blocks that follow those sent before; add_blocks returns without
\* an error only when every block was sent; when a request fails nothing
\* more is sent, and the caller counts the error.
BatchesInOrder ==
    /\ appended' # appended =>
          /\ pc = "built" /\ pc' = "built" /\ ~dry_run /\ blocks # <<>>
          /\ \E n \in 1..100 :
                appended' =
                    Append(appended,
                           [block_id |-> note_page_id,
                            children |-> SubSeq(blocks, Len(Flat(SentForNote)) + 1,
                                                Len(Flat(SentForNote)) + n)])
    /\ (pc = "built" /\ pc' = "run" /\ stats'.notes = stats.notes + 1 /\ ~dry_run)
          => Flat(SentForNote) = blocks
    /\ (pc = "built" /\ pc' = "run" /\ stats'.notes = stats.notes)
          => /\ Len(Flat(SentForNote)) < Len(blocks)
             /\ appended' = appended
             /\ stats'.errors = stats.errors + 1

\* C23: add_blocks, dry_run off, sends a list of blocks as consecutive
\* append requests of at most 100 blocks each, in the order of the list,
\* that hold the whole list end to end; it sends no request for an empty
\* list; when a request fails no later batch is sent and the caller gets
\* the error.
C23_ConsecutiveBatches ==
    /\ []BatchesArePrefix
    /\ [][BatchesInOrder]_vars

\* 201 blocks were sent in requests of 100, 100 and 1 blocks.
C23_Witness ==
    /\ pc = "built" /\ ~dry_run
    /\ Len(blocks) = 2 * BatchSize + 1
    /\ Len(SentForNote) = 3
    /\ Len(SentForNote[1].children) = 100 /\ Len(SentForNote[2].children) = 100
    /\ Len(SentForNote[3].children) = 1
    /\ Flat(SentForNote) = blocks

(***************************************************************************)
(* The counters of the run, over the runs of SpecTree: a vault with notes  *)
(* in the root, in a directory, in a directory below it and in skipped     *)
(* directories, with and without dry_run.                                  *)
(***************************************************************************)
\* A step in which _migrate_note returns for the note at the head of todo.
NoteReturns ==
    /\ todo # <<>> /\ todo[1].kind = "note"
    /\ todo' = Tail(todo)

\* Exactly one of notes and errors grows by one, and the other stays.
OneCounterGrows ==
    \/ stats'.notes = stats.notes + 1 /\ stats'.errors = stats.errors
    \/ stats'.errors = stats.errors + 1 /\ stats'.notes = stats.notes

\* The two counters move only when _migrate_note returns, and then exactly
\* one of them grows by one.
CountedOnReturn ==
    /\ NoteReturns => OneCounterGrows
    /\ (stats'.notes # stats.notes \/ stats'.errors # stats.errors) => NoteReturns

\* At the end of a run that no directory made fail, the two counters add up to
\* the number of markdown notes visited.
CountsAddUp ==
    pc = "done" => stats.notes + stats.errors = Cardinality(WalkedNotes)

\* The page of the note at hand exists and the requests sent to it carry all
\* its blocks, in order.
NoteMigrated ==
    /\ \E j \in DOMAIN pages : pages[j].id = note_page_id
    /\ Flat(SentForNote) = blocks

\* C24: after _migrate_note returns for a note exactly one of stats.notes and
\* stats.errors has grown by one, so at the end of a run that raises no
\* directory-level error notes + errors is the number of markdown files
\* visited; stats.notes grows only after the page of the note was created and
\* all its blocks were appended.
C24_OneCounterPerNote ==
    /\ []CountsAddUp
    /\ [][/\ CountedOnReturn
          /\ stats'.notes # stats.notes => NoteMigrated]_vars

\* C24 amended: the same, with the last clause for the runs that are no dry
\* run: in a dry run stats.notes grows although no page is created and no
\* block is appended.
C24_OneCounterPerNoteNoDryRun ==
    /\ []CountsAddUp
    /\ [][/\ CountedOnReturn
          /\ (stats'.notes # stats.notes /\ ~dry_run) => NoteMigrated]_vars

\* A run that is no dry run ended over the three visited notes of the tree:
\* two were migrated, each with its page and its block, and one failed.
C24_Witness ==
    /\ pc = "done" /\ ~dry_run /\ vault = TreeVault
    /\ Cardinality(WalkedNotes) = 3
    /\ stats.notes = 2 /\ stats.errors = 1
    /\ Len(appended) = 2

====
